---- MODULE Spec2Model ----
(***************************************************************************)
(* A model of the dissipation simulator: the SimulationEngine class        *)
(* (simulationEnginPre.ts) and the React host that drives three engines    *)
(* (App.tsx): manual run and parameter sweep.                              *)
(*                                                                         *)
(* Numbers.  Energies are fixed-point integers.  One energy unit is        *)
(* 1000 * Grain model units, so the constants of the code (0.45, 0.05,     *)
(* 0.2, ...) and the 3-decimal sweep values are exact.  IEEE halving       *)
(* (a.energy *= 0.5) is exact, and Grain = 2^MaxTicks keeps it exact in    *)
(* the model for every run of at most MaxTicks ticks: the products of the  *)
(* diffusion step (flow, loss) are truncated to a multiple of Grain, the   *)
(* model's counterpart of float rounding, and every other operation is an  *)
(* exact sum, difference or minimum.  Positions are fixed-point with       *)
(* PosScale units per cell.  The PRNG is computed bit for bit.             *)
(***************************************************************************)
EXTENDS Integers, Sequences, FiniteSets, TLC

\* ------------------------------------------------------------- bounds
\* Manual ticks (engine updates outside a sweep) explored after a reset.
MaxTicks == 4

Grain == 2 ^ MaxTicks
\* m thousandths of an energy unit, in model units
E(m) == m * Grain
\* truncate a product to the model's product precision (0.001)
TruncG(v) == (v \div Grain) * Grain
\* floor(x * m / d) for x >= 0 without leaving 32 bits
MulDiv(x, m, d) == (x \div d) * m + ((x % d) * m) \div d

\* positions are kept in thousandths of a cell
PosScale == 10 ^ 3

Min(a, b) == IF a < b THEN a ELSE b
Max(a, b) == IF a > b THEN a ELSE b
Abs(a) == IF a < 0 THEN -a ELSE a

ModeSet == {"off", "random", "life"}

\* ------------------------------------------------------------- 32-bit words
\* A 32-bit word is <<hi, lo>>, two 16-bit halves.
W16 == 2 ^ 16

RECURSIVE XorN(_, _, _)
XorN(a, b, n) ==
  IF n = 0 THEN 0
  ELSE ((a + b) % 2) + 2 * XorN(a \div 2, b \div 2, n - 1)

RECURSIVE OrN(_, _, _)
OrN(a, b, n) ==
  IF n = 0 THEN 0
  ELSE (IF a % 2 = 1 \/ b % 2 = 1 THEN 1 ELSE 0) + 2 * OrN(a \div 2, b \div 2, n - 1)

ToU32(n) == <<(n \div W16) % W16, n % W16>>
Add32(a, b) ==
  LET lo == a[2] + b[2]
  IN  <<(a[1] + b[1] + lo \div W16) % W16, lo % W16>>
Xor32(a, b) == <<XorN(a[1], b[1], 16), XorN(a[2], b[2], 16)>>
\* t | c for a constant c < 2^16
OrLow(a, c) == <<a[1], OrN(a[2], c, 16)>>
\* t >>> k, 0 < k < 16
Shr32(a, k) ==
  <<a[1] \div (2 ^ k), (a[2] \div (2 ^ k)) + (a[1] % (2 ^ k)) * (2 ^ (16 - k))>>
\* the 32-bit product of two 16-bit numbers, by 8-bit limbs
Mul16(u, v) ==
  LET u1 == u \div 256  u0 == u % 256
      v1 == v \div 256  v0 == v % 256
      mid == u1 * v0 + u0 * v1
      lo == u0 * v0 + (mid % 256) * 256
  IN  <<u1 * v1 + mid \div 256 + lo \div W16, lo % W16>>
\* Math.imul: the low 32 bits of the product
Imul(a, b) ==
  LET p == Mul16(a[2], b[2])
      cross == Mul16(a[1], b[2])[2] + Mul16(a[2], b[1])[2]
  IN  <<(p[1] + cross) % W16, p[2]>>

\* One call of the closure mulberry32(a) returns: the closure's new a (kept
\* modulo 2^32: every use of a goes through a 32-bit operator) and the 32-bit
\* numerator of the float returned, out / 2^32.
\* t = Math.imul(t ^ (t >>> 15), t | 1)
MixA(t) == Imul(Xor32(t, Shr32(t, 15)), OrLow(t, 1))
\* t ^= t + Math.imul(t ^ (t >>> 7), t | 61)
MixB(t) == Xor32(t, Add32(t, Imul(Xor32(t, Shr32(t, 7)), OrLow(t, 61))))
\* (t ^ (t >>> 14)) >>> 0
MixC(t) == Xor32(t, Shr32(t, 14))
Mulberry32Out(a1) == [a |-> a1, out |-> MixC(MixB(MixA(a1)))]
Mulberry32Step(a) == Mulberry32Out(Add32(a, <<27947, 31221>>))   \* 0x6d2b79f5
\* mulberry32(seed): the closure's initial state
mulberry32(seed) == ToU32(seed)

\* two calls in a row: [o1, o2, a]
SecondDraw(r1, r2) == [o1 |-> r1.out, o2 |-> r2.out, a |-> r2.a]
FirstDraw(r1) == SecondDraw(r1, Mulberry32Step(r1.a))
TwoDraws(a) == FirstDraw(Mulberry32Step(a))

\* floor(r * k) for the float r = out / 2^32 and an integer 0 <= k < 2^15
ScaleRnd(out, k) == (out[1] * k + (out[2] * k) \div W16) \div W16

\* ------------------------------------------------------------- engine: values
\* A config is a record [gridSize, inflowRate, consumptionRate, diffusionSpeed,
\* diffusionCap, initialAgents, initialSpread, seed]: the rates, the speed and the
\* cap in thousandths, initialSpread in whole cells (the slider's step).
\* A grid is a function on 0 .. N*N-1; an agent is [x, y, energy, vx, vy] with
\* x, y, vx, vy in 1/PosScale of a cell.

Null == <<>>

HIGH == 15000
LOW == 1000
INITIAL_ENERGY == 2000
friction == 10
cost == 500
randomTake == 500
basal == 450
moveCost == 50
deathBelow == 200
reproduceAbove == 10000
modeSaltLife == 777
modeSaltOther == 999

clampNonNeg(x) == IF x < 0 THEN 0 ELSE x

Front(q) == SubSeq(q, 1, Len(q) - 1)
Last(q) == q[Len(q)]

RECURSIVE SumTo(_, _)
SumTo(f, n) == IF n = 0 THEN 0 ELSE f[n - 1] + SumTo(f, n - 1)
SumGrid(g) == SumTo(g, Cardinality(DOMAIN g))
RECURSIVE SumEnergy(_)
SumEnergy(as) == IF as = <<>> THEN 0 ELSE Head(as).energy + SumEnergy(Tail(as))

\* Math.sqrt(this.grid.length) | 0
RECURSIVE ISqrtFrom(_, _)
ISqrtFrom(n, k) == IF (k + 1) * (k + 1) > n THEN k ELSE ISqrtFrom(n, k + 1)
SideOf(g) == ISqrtFrom(Cardinality(DOMAIN g), 0)

\* generateMasterState, the grid: dist < initialSpread, with
\* dist^2 = ((2x - size)^2 + (2y - size)^2) / 4
MasterGrid(config) ==
  LET size == config.gridSize
  IN  [i \in 0 .. size * size - 1 |->
         LET x == i % size
             y == i \div size
             d4 == (2 * x - size) * (2 * x - size) + (2 * y - size) * (2 * y - size)
         IN  IF config.initialSpread > 0
                /\ d4 < 4 * config.initialSpread * config.initialSpread
             THEN E(HIGH) ELSE E(LOW)]

\* generateMasterState, the agents: two draws of localRng per agent, x first
RECURSIVE MasterAgents(_, _, _)
MasterAgentsFrom(d, n, size) ==
  <<[x |-> ScaleRnd(d.o1, size * PosScale),
     y |-> ScaleRnd(d.o2, size * PosScale),
     energy |-> E(INITIAL_ENERGY), vx |-> 0, vy |-> 0]>>
  \o MasterAgents(d.a, n - 1, size)
MasterAgents(a, n, size) ==
  IF n <= 0 THEN <<>> ELSE MasterAgentsFrom(TwoDraws(a), n, size)

\* PairsFrom on a torus: the last column's right neighbour is the first
\* column, the last row's down neighbour the first row
RECURSIVE PairsFromWrapping(_, _)
PairsFromWrapping(i, N) ==
  IF i >= N * N THEN <<>>
  ELSE <<<<i, (i \div N) * N + (((i % N) + 1) % N)>>>>
       \o <<<<i, (i + N) % (N * N)>>>>
       \o PairsFromWrapping(i + 1, N)

\* The pairs of one diffusion scan, in scan order: row-major, for each cell its
\* right neighbour, then its down neighbour.
RECURSIVE PairsFrom(_, _)
PairsFrom(i, N) ==
  IF i >= N * N THEN <<>>
  ELSE (IF (i % N) + 1 < N THEN <<<<i, i + 1>>>> ELSE <<>>)
       \o (IF (i \div N) + 1 < N THEN <<<<i, i + N>>>> ELSE <<>>)
       \o PairsFrom(i + 1, N)

\* FlowOf bounded by the gradient alone
FlowOfUncapped(delta, available, speed, cap) ==
  TruncG(MulDiv(Abs(delta), speed, 4000))

\* flow = Math.min(Math.abs(delta) * speed * 0.25, available * cap)
FlowOf(delta, available, speed, cap) ==
  Min(TruncG(MulDiv(Abs(delta), speed, 4000)), TruncG(MulDiv(available, cap, 1000)))

\* Transfer with the receiver credited the whole flow
TransferWhole(st, sIdx, rIdx, flow) ==
  LET loss == TruncG(flow \div friction)
  IN  IF flow <= 0 THEN st
      ELSE [next |-> [st.next EXCEPT ![sIdx] = @ - flow, ![rIdx] = @ + flow],
            heat |-> st.heat + loss]

\* One pair of the scan, from the flow on.  st = [next, heat]: the working
\* buffer and stepHeatDiff so far.
Transfer(st, sIdx, rIdx, flow) ==
  LET loss == TruncG(flow \div friction)
      net == flow - loss
  IN  IF flow <= 0 THEN st
      ELSE [next |-> [st.next EXCEPT ![sIdx] = @ - flow, ![rIdx] = @ + net],
            heat |-> st.heat + loss]

\* One pair of the scan.  grid is this.grid, the buffer the scan began with.
Exchange(grid, st, i, j, speed, cap) ==
  LET delta == grid[i] - grid[j]
      sIdx == IF delta > 0 THEN i ELSE j
      rIdx == IF delta > 0 THEN j ELSE i
      available == st.next[sIdx]
  IN  IF delta = 0 THEN st
      ELSE IF available <= 0 THEN st
      ELSE Transfer(st, sIdx, rIdx, FlowOf(delta, available, speed, cap))

RECURSIVE Scan(_, _, _, _, _, _)
Scan(grid, st, pairs, k, speed, cap) ==
  IF k > Len(pairs) THEN st
  ELSE Scan(grid, Exchange(grid, st, pairs[k][1], pairs[k][2], speed, cap),
            pairs, k + 1, speed, cap)

\* Clamped without the clamp
Unclamped(st) == st

\* the clamp that ends applyStrictDiffusion
Clamped(st) ==
  [next |-> [k \in DOMAIN st.next |-> clampNonNeg(st.next[k])], heat |-> st.heat]

\* applyStrictDiffusion on values: [next, heat]
applyStrictDiffusion(grid, speed, cap) ==
  Clamped(Scan(grid, [next |-> grid, heat |-> 0], PairsFrom(0, SideOf(grid)), 1,
               speed, cap))

\* RandomAgentMove without the toroidal wrap
RandomAgentMoveUnwrapped(acc, a, N, d) ==
  LET paid == Min(a.energy, E(cost))
      gi == (a.x \div PosScale) + (a.y \div PosScale) * N
      take == Min(acc.grid[gi], E(randomTake))
      dx == ScaleRnd(d.o1, 4 * PosScale) - 2 * PosScale
      dy == ScaleRnd(d.o2, 4 * PosScale) - 2 * PosScale
  IN  [grid |-> [acc.grid EXCEPT ![gi] = @ - take],
       agents |-> Append(acc.agents,
                    [a EXCEPT !.energy = a.energy - paid + take,
                              !.x = a.x + dx,
                              !.y = a.y + dy]),
       heat |-> acc.heat + paid,
       rng |-> d.a]

\* updateRandom, one agent.  acc = [grid, agents, heat, rng]: the grid, the
\* agents already processed, stepHeatAct and the stream so far; d the agent's
\* two draws.
RandomAgentMove(acc, a, N, d) ==
  LET paid == Min(a.energy, E(cost))
      gi == (a.x \div PosScale) + (a.y \div PosScale) * N
      take == Min(acc.grid[gi], E(randomTake))
      dx == ScaleRnd(d.o1, 4 * PosScale) - 2 * PosScale
      dy == ScaleRnd(d.o2, 4 * PosScale) - 2 * PosScale
  IN  [grid |-> [acc.grid EXCEPT ![gi] = @ - take],
       agents |-> Append(acc.agents,
                    [a EXCEPT !.energy = a.energy - paid + take,
                              !.x = (a.x + dx + N * PosScale) % (N * PosScale),
                              !.y = (a.y + dy + N * PosScale) % (N * PosScale)]),
       heat |-> acc.heat + paid,
       rng |-> d.a]
RandomAgent(acc, a, N) == RandomAgentMove(acc, a, N, TwoDraws(acc.rng))

\* updateRandom on values: [grid, agents, heat, rng]
RECURSIVE updateRandom(_, _, _, _)
updateRandom(grid, agents, rng, N) ==
  IF agents = <<>> THEN [grid |-> grid, agents |-> <<>>, heat |-> 0, rng |-> rng]
  ELSE RandomAgent(updateRandom(grid, Front(agents), rng, N), Last(agents), N)

\* cos and sin of (i / 8) * 2 * PI, i = 0 .. 7, in 1/PosScale (index i + 1)
COS8 == <<1000, 707, 0, -707, -1000, -707, 0, 707>>
SIN8 == <<0, 707, 1000, 707, 0, -707, -1000, -707>>
\* the same times 2, the sampling radius
COS8x2 == <<2000, 1414, 0, -1414, -2000, -1414, 0, 1414>>
SIN8x2 == <<0, 1414, 2000, 1414, 0, -1414, -2000, -1414>>

\* The direction loop of updateLife: best = 0 stands for the initial
\* bestAng = atan2(a.vy, a.vx), best = i + 1 for ang = (i / 8) * 2 * PI.
RECURSIVE BestDir(_, _, _, _, _, _)
BestDir(grid, a, N, i, best, maxE) ==
  IF i >= 8 THEN best
  ELSE LET sx == (((a.x + COS8x2[i + 1]) \div PosScale) + N) % N
           sy == (((a.y + SIN8x2[i + 1]) \div PosScale) + N) % N
           e == grid[sx + sy * N]
       IN  IF e > maxE THEN BestDir(grid, a, N, i + 1, i + 1, e)
           ELSE BestDir(grid, a, N, i + 1, best, maxE)

\* cos(bestAng), sin(bestAng): atan2(0, 0) = 0, and a heading already chosen
\* is a unit vector, which atan2, cos and sin give back
HeadingOf(a, best) ==
  IF best = 0
  THEN (IF a.vx = 0 /\ a.vy = 0 THEN <<PosScale, 0>> ELSE <<a.vx, a.vy>>)
  ELSE <<COS8[best], SIN8[best]>>

\* updateLife, the per-agent step from the movement cost on: grid1 and e2 are
\* the grid and the agent's energy after feeding, v the new heading.
\* acc = [grid, agents, heat]
LifeAgentMove(acc, a, N, grid1, e2, paid, v) ==
  LET paidMove == Min(e2, E(moveCost))
  IN  [grid |-> grid1,
       agents |-> Append(acc.agents,
                    [x |-> (a.x + v[1] + N * PosScale) % (N * PosScale),
                     y |-> (a.y + v[2] + N * PosScale) % (N * PosScale),
                     energy |-> e2 - paidMove, vx |-> v[1], vy |-> v[2]]),
       heat |-> acc.heat + paid + paidMove]
\* ... from the direction choice on
LifeAgentTurn(acc, a, N, grid1, e2, paid) ==
  LifeAgentMove(acc, a, N, grid1, e2, paid,
                HeadingOf(a, BestDir(grid1, a, N, 0, 0, E(-1000))))
\* LifeAgent feeding consumptionRate whatever the cell holds
LifeAgentGreedy(acc, a, N, consumptionRate) ==
  LET paid == Min(a.energy, E(basal))
      gi == (a.x \div PosScale) + (a.y \div PosScale) * N
      take == E(consumptionRate)
  IN  LifeAgentTurn(acc, a, N, [acc.grid EXCEPT ![gi] = @ - take],
                    a.energy - paid + take, paid)

\* LifeAgent paying the whole basal cost whatever the agent holds
LifeAgentInDebt(acc, a, N, consumptionRate) ==
  LET paid == E(basal)
      gi == (a.x \div PosScale) + (a.y \div PosScale) * N
      take == Min(acc.grid[gi], E(consumptionRate))
  IN  LifeAgentTurn(acc, a, N, [acc.grid EXCEPT ![gi] = @ - take],
                    a.energy - paid + take, paid)

\* updateLife, the per-agent step
LifeAgent(acc, a, N, consumptionRate) ==
  LET paid == Min(a.energy, E(basal))
      gi == (a.x \div PosScale) + (a.y \div PosScale) * N
      take == Min(acc.grid[gi], E(consumptionRate))
  IN  LifeAgentTurn(acc, a, N, [acc.grid EXCEPT ![gi] = @ - take],
                    a.energy - paid + take, paid)

RECURSIVE LifeMove(_, _, _, _)
LifeMove(grid, agents, N, consumptionRate) ==
  IF agents = <<>> THEN [grid |-> grid, agents |-> <<>>, heat |-> 0]
  ELSE LifeAgent(LifeMove(grid, Front(agents), N, consumptionRate), Last(agents),
                 N, consumptionRate)

\* a.energy *= 0.5
Half(e) == e \div 2

\* LifeCycleAgent with the energy of a dying agent also counted as heat
LifeCycleAgentBurning(acc, a, n, N) ==
  LET gi == (a.x \div PosScale) + (a.y \div PosScale) * N
      split == [a EXCEPT !.energy = Half(a.energy)]
  IN  IF a.energy < E(deathBelow)
      THEN [acc EXCEPT !.grid[gi] = @ + a.energy,
                       !.agents = Append(@, a),
                       !.heat = @ + a.energy]
      ELSE IF a.energy > E(reproduceAbove)
      THEN [acc EXCEPT !.agents = Append(@, split),
                       !.alive = Append(@, n),
                       !.newborns = Append(@, split)]
      ELSE [acc EXCEPT !.agents = Append(@, a),
                       !.alive = Append(@, n)]

\* LifeCycleAgent with the clone given the parent's whole energy
LifeCycleAgentCloningWhole(acc, a, n, N) ==
  LET gi == (a.x \div PosScale) + (a.y \div PosScale) * N
      split == [a EXCEPT !.energy = Half(a.energy)]
  IN  IF a.energy < E(deathBelow)
      THEN [acc EXCEPT !.grid[gi] = @ + a.energy,
                       !.agents = Append(@, a)]
      ELSE IF a.energy > E(reproduceAbove)
      THEN [acc EXCEPT !.agents = Append(@, split),
                       !.alive = Append(@, n),
                       !.newborns = Append(@, a)]
      ELSE [acc EXCEPT !.agents = Append(@, a),
                       !.alive = Append(@, n)]

\* updateLife, the death/reproduction phase, one agent: a is agent n of the
\* list.  acc = [grid, agents, alive, newborns, heat]: the grid; every agent's
\* object as the phase leaves it; the indices pushed to survivors, in order;
\* the clones, in order; what the phase adds to stepHeatAct.
LifeCycleAgent(acc, a, n, N) ==
  LET gi == (a.x \div PosScale) + (a.y \div PosScale) * N
      split == [a EXCEPT !.energy = Half(a.energy)]
  IN  IF a.energy < E(deathBelow)
      THEN [acc EXCEPT !.grid[gi] = @ + a.energy,
                       !.agents = Append(@, a)]
      ELSE IF a.energy > E(reproduceAbove)
      THEN [acc EXCEPT !.agents = Append(@, split),
                       !.alive = Append(@, n),
                       !.newborns = Append(@, split)]
      ELSE [acc EXCEPT !.agents = Append(@, a),
                       !.alive = Append(@, n)]

RECURSIVE LifeCycle(_, _, _)
LifeCycle(grid, agents, N) ==
  IF agents = <<>>
  THEN [grid |-> grid, agents |-> <<>>, alive |-> <<>>, newborns |-> <<>>, heat |-> 0]
  ELSE LifeCycleAgent(LifeCycle(grid, Front(agents), N), Last(agents), Len(agents), N)

\* the death/reproduction phase after the per-agent steps moved = [grid, agents, heat]
LifeCycleAfter(moved, N) ==
  [LifeCycle(moved.grid, moved.agents, N) EXCEPT !.heat = @ + moved.heat]

\* updateLife on values: [grid, agents, alive, newborns, heat]
updateLife(grid, agents, N, consumptionRate) ==
  LifeCycleAfter(LifeMove(grid, agents, N, consumptionRate), N)

\* ------------------------------------------------------------- engine: objects
\* The heap: bufs maps a buffer (a Float32Array) to its content, objs an agent
\* object to its fields.  An engine is [grid, agents, initialStock, totalInflow,
\* cumulativeHeat, stepHeatDiff, stepHeatAct, seed, rngRandom, ticks] with grid
\* a buffer and agents a sequence of agent objects; ticks, not a field of the
\* class, counts the update calls since importState.
\* A method of the engine of a mode takes a record s with the fields heap,
\* engines (mode -> engine), master (the state generateMasterState returned)
\* and lastStats (mode -> the stats update returned), and returns it as the
\* call leaves it.

EmptyHeap == [bufs |-> <<>>, objs |-> <<>>]

\* the next object created: the least identity not in use
NewId(dom) ==
  CHOOSE i \in 0 .. Cardinality(dom) :
    i \notin dom /\ \A j \in 0 .. i - 1 : j \in dom
Put(f, k, v) == [x \in DOMAIN f \cup {k} |-> IF x = k THEN v ELSE f[x]]

\* one new agent object per value, in order: [objs, ids]
AllocObj(acc, val) ==
  LET id == NewId(DOMAIN acc.objs)
  IN  [objs |-> Put(acc.objs, id, val), ids |-> Append(acc.ids, id)]
RECURSIVE AllocObjs(_, _)
AllocObjs(objs, vals) ==
  IF vals = <<>> THEN [objs |-> objs, ids |-> <<>>]
  ELSE AllocObj(AllocObjs(objs, Front(vals)), Last(vals))

\* the assignments to the fields of the objects ids[1], ids[2], ..., in order
RECURSIVE WriteObjs(_, _, _)
WriteObjs(objs, ids, vals) ==
  IF ids = <<>> THEN objs
  ELSE [WriteObjs(objs, Front(ids), Front(vals)) EXCEPT ![Last(ids)] = Last(vals)]

AgentsOf(h, ids) == [k \in 1 .. Len(ids) |-> h.objs[ids[k]]]
GridOf(s, mode) == s.heap.bufs[s.engines[mode].grid]

\* new SimulationEngine(config), stored as the engine of the mode
constructor(s, mode, config) ==
  LET g == NewId(DOMAIN s.heap.bufs)
  IN  [s EXCEPT
         !.heap.bufs = Put(@, g, [i \in 0 .. config.gridSize * config.gridSize - 1 |-> 0]),
         !.engines = Put(@, mode,
                         [grid |-> g, agents |-> <<>>,
                          initialStock |-> 0, totalInflow |-> 0, cumulativeHeat |-> 0,
                          stepHeatDiff |-> 0, stepHeatAct |-> 0,
                          seed |-> config.seed, rngRandom |-> Null, ticks |-> 0])]

\* the return of generateMasterState: a new grid buffer and the new agent
\* objects al = [objs, ids]
MasterReturned(s, grid, al) ==
  LET g == NewId(DOMAIN s.heap.bufs)
  IN  [s EXCEPT !.heap = [bufs |-> Put(s.heap.bufs, g, grid), objs |-> al.objs],
                !.master = [grid |-> g, agents |-> al.ids]]

\* generateMasterState drawing from the engine's stream when it has one
generateMasterStateFromStream(s, mode, config) ==
  MasterReturned(s, MasterGrid(config),
                 AllocObjs(s.heap.objs,
                           MasterAgents(IF s.engines[mode].rngRandom = Null
                                        THEN mulberry32(config.seed)
                                        ELSE s.engines[mode].rngRandom,
                                        config.initialAgents, config.gridSize)))

\* generateMasterState called on the engine of the mode; the state returned is
\* s.master
generateMasterState(s, mode, config) ==
  MasterReturned(s, MasterGrid(config),
                 AllocObjs(s.heap.objs,
                           MasterAgents(mulberry32(config.seed), config.initialAgents,
                                        config.gridSize)))

getTotalInternalEnergy(s, mode) ==
  SumGrid(GridOf(s, mode)) + SumEnergy(AgentsOf(s.heap, s.engines[mode].agents))

\* importState, its last statement
StockTaken(s, mode) ==
  [s EXCEPT !.engines[mode].initialStock = getTotalInternalEnergy(s, mode)]

\* Imported keeping the references of the state: this.grid = state.grid,
\* this.agents = state.agents
ImportedByReference(s, mode, state, al) ==
  LET modeSalt == IF mode = "life" THEN modeSaltLife ELSE modeSaltOther
  IN  [s EXCEPT
         !.engines[mode] =
            [@ EXCEPT !.grid = state.grid,
                      !.agents = IF mode = "off" THEN <<>> ELSE state.agents,
                      !.cumulativeHeat = 0, !.totalInflow = 0,
                      !.stepHeatDiff = 0, !.stepHeatAct = 0,
                      !.rngRandom = mulberry32(s.engines[mode].seed + modeSalt),
                      !.ticks = 0]]

\* Imported without this.cumulativeHeat = 0
ImportedKeepingHeat(s, mode, state, al) ==
  LET g == NewId(DOMAIN s.heap.bufs)
      modeSalt == IF mode = "life" THEN modeSaltLife ELSE modeSaltOther
  IN  [s EXCEPT
         !.heap = [bufs |-> Put(s.heap.bufs, g, s.heap.bufs[state.grid]),
                   objs |-> al.objs],
         !.engines[mode] =
            [@ EXCEPT !.grid = g, !.agents = al.ids,
                      !.totalInflow = 0,
                      !.stepHeatDiff = 0, !.stepHeatAct = 0,
                      !.rngRandom = mulberry32(s.engines[mode].seed + modeSalt),
                      !.ticks = 0]]

\* importState seeding every mode's stream with the salt of life
ImportedWithOneSalt(s, mode, state, al) ==
  LET g == NewId(DOMAIN s.heap.bufs)
  IN  [s EXCEPT
         !.heap = [bufs |-> Put(s.heap.bufs, g, s.heap.bufs[state.grid]),
                   objs |-> al.objs],
         !.engines[mode] =
            [@ EXCEPT !.grid = g, !.agents = al.ids,
                      !.cumulativeHeat = 0, !.totalInflow = 0,
                      !.stepHeatDiff = 0, !.stepHeatAct = 0,
                      !.rngRandom = mulberry32(s.engines[mode].seed + modeSaltLife),
                      !.ticks = 0]]

\* importState up to its last statement, al = [objs, ids] the copies of the agents
Imported(s, mode, state, al) ==
  LET g == NewId(DOMAIN s.heap.bufs)
      modeSalt == IF mode = "life" THEN modeSaltLife ELSE modeSaltOther
  IN  [s EXCEPT
         !.heap = [bufs |-> Put(s.heap.bufs, g, s.heap.bufs[state.grid]),
                   objs |-> al.objs],
         !.engines[mode] =
            [@ EXCEPT !.grid = g, !.agents = al.ids,
                      !.cumulativeHeat = 0, !.totalInflow = 0,
                      !.stepHeatDiff = 0, !.stepHeatAct = 0,
                      !.rngRandom = mulberry32(s.engines[mode].seed + modeSalt),
                      !.ticks = 0]]

\* importState copying the agents in every mode
importStateWithAgents(s, mode, state) ==
  StockTaken(Imported(s, mode, state,
                      AllocObjs(s.heap.objs, AgentsOf(s.heap, state.agents))),
             mode)

\* importState(state, mode) called on the engine of the mode
importState(s, mode, state) ==
  StockTaken(Imported(s, mode, state,
                      IF mode = "off" THEN [objs |-> s.heap.objs, ids |-> <<>>]
                      ELSE AllocObjs(s.heap.objs, AgentsOf(s.heap, state.agents))),
             mode)

\* Inflow without the reset of the step counters
InflowKeepingCounters(s, mode, config) ==
  LET size == config.gridSize
      centerIdx == (size \div 2) * size + (size \div 2)
  IN  [s EXCEPT !.heap.bufs[s.engines[mode].grid][centerIdx] = @ + E(config.inflowRate),
                !.engines[mode].totalInflow = @ + E(config.inflowRate),
                !.engines[mode].ticks = @ + 1]

\* Inflow injecting into cell 0
InflowAtCorner(s, mode, config) ==
  [s EXCEPT !.heap.bufs[s.engines[mode].grid][0] = @ + E(config.inflowRate),
            !.engines[mode].stepHeatDiff = 0,
            !.engines[mode].stepHeatAct = 0,
            !.engines[mode].totalInflow = @ + E(config.inflowRate),
            !.engines[mode].ticks = @ + 1]

\* update: the reset of the step counters and the external inflow
Inflow(s, mode, config) ==
  LET size == config.gridSize
      centerIdx == (size \div 2) * size + (size \div 2)
  IN  [s EXCEPT !.heap.bufs[s.engines[mode].grid][centerIdx] = @ + E(config.inflowRate),
                !.engines[mode].stepHeatDiff = 0,
                !.engines[mode].stepHeatAct = 0,
                !.engines[mode].totalInflow = @ + E(config.inflowRate),
                !.engines[mode].ticks = @ + 1]

\* the end of applyStrictDiffusion: a new buffer becomes this.grid
Diffused(s, mode, d) ==
  LET next == NewId(DOMAIN s.heap.bufs)
  IN  [s EXCEPT !.heap.bufs = Put(@, next, d.next),
                !.engines[mode].grid = next,
                !.engines[mode].stepHeatDiff = @ + d.heat]

Diffuse(s, mode, config) ==
  Diffused(s, mode, applyStrictDiffusion(GridOf(s, mode), config.diffusionSpeed,
                                         config.diffusionCap))

\* LifeStored with this.agents = newborns.concat(survivors)
LifeStoredNewbornsFirst(s, mode, L, al) ==
  LET eng == s.engines[mode]
  IN  [s EXCEPT !.heap = [bufs |-> [s.heap.bufs EXCEPT ![eng.grid] = L.grid],
                          objs |-> al.objs],
                !.engines[mode].agents =
                   al.ids \o [k \in 1 .. Len(L.alive) |-> eng.agents[L.alive[k]]],
                !.engines[mode].stepHeatAct = @ + L.heat]

\* updateLife on the engine: L the values, al = [objs, ids] the clones
LifeStored(s, mode, L, al) ==
  LET eng == s.engines[mode]
  IN  [s EXCEPT !.heap = [bufs |-> [s.heap.bufs EXCEPT ![eng.grid] = L.grid],
                          objs |-> al.objs],
                !.engines[mode].agents =
                   [k \in 1 .. Len(L.alive) |-> eng.agents[L.alive[k]]] \o al.ids,
                !.engines[mode].stepHeatAct = @ + L.heat]
LifeApplied(s, mode, L) ==
  LifeStored(s, mode, L,
             AllocObjs(WriteObjs(s.heap.objs, s.engines[mode].agents, L.agents),
                       L.newborns))

\* updateRandom on the engine, an agent leaving the list once one is weak
RandomAppliedCulling(s, mode, R) ==
  LET eng == s.engines[mode]
  IN  [s EXCEPT !.heap = [bufs |-> [s.heap.bufs EXCEPT ![eng.grid] = R.grid],
                          objs |-> WriteObjs(s.heap.objs, eng.agents, R.agents)],
                !.engines[mode].agents =
                   IF \E k \in 1 .. Len(R.agents) : R.agents[k].energy < E(LOW)
                   THEN Front(@) ELSE @,
                !.engines[mode].rngRandom = R.rng,
                !.engines[mode].stepHeatAct = @ + R.heat]

\* updateRandom on the engine
RandomApplied(s, mode, R) ==
  LET eng == s.engines[mode]
  IN  [s EXCEPT !.heap = [bufs |-> [s.heap.bufs EXCEPT ![eng.grid] = R.grid],
                          objs |-> WriteObjs(s.heap.objs, eng.agents, R.agents)],
                !.engines[mode].rngRandom = R.rng,
                !.engines[mode].stepHeatAct = @ + R.heat]

\* the agent dynamics of update
AgentPhase(s, mode, config) ==
  IF mode = "life"
  THEN LifeApplied(s, mode,
                   updateLife(GridOf(s, mode),
                              AgentsOf(s.heap, s.engines[mode].agents),
                              SideOf(GridOf(s, mode)), config.consumptionRate))
  ELSE IF mode = "random"
  THEN RandomApplied(s, mode,
                     updateRandom(GridOf(s, mode),
                                  AgentsOf(s.heap, s.engines[mode].agents),
                                  s.engines[mode].rngRandom, SideOf(GridOf(s, mode))))
  ELSE s

\* update from deltaHeat on: the energy audit and the stats returned
Audit(s, mode) ==
  LET eng == s.engines[mode]
      deltaHeat == eng.stepHeatDiff + eng.stepHeatAct
      cumulativeHeat == eng.cumulativeHeat + deltaHeat
  IN  [s EXCEPT
         !.engines[mode].cumulativeHeat = cumulativeHeat,
         !.lastStats = Put(@, mode,
            [deltaHeat |-> deltaHeat,
             totalHeat |-> cumulativeHeat,
             heatDiff |-> eng.stepHeatDiff,
             heatAct |-> eng.stepHeatAct,
             agentCount |-> Len(eng.agents),
             energyError |-> (getTotalInternalEnergy(s, mode) + cumulativeHeat)
                             - (eng.initialStock + eng.totalInflow)])]

\* update({...config, mode}) called on the engine of the mode
update(s, mode, config) ==
  Audit(AgentPhase(Diffuse(Inflow(s, mode, config), mode, config), mode, config), mode)

\* ------------------------------------------------------------- host (App.tsx)
\* How long the host may take to fire a 50 ms timeout, in animation frames.
MaxGapFrames == 2
\* The user touches the controls during a sweep only in the first
\* MaxClickPoints points: the parameters in the first MaxClickTick ticks of a
\* point, STOP then or while a timeout is pending.  START SWEEP is pressed
\* when no timeout is pending.
MaxClickPoints == 1
MaxClickTick == 1

SWEEP_TOTAL_TICKS == 650
SWEEP_BURN_IN == 350
SWEEP_MEASURE_TICKS == 250
SweepListLength == 5
ChartKeep == 1000
ProgressEvery == 25

VARIABLES
  userConfig,     \* useState: the config the controls edit
  activeConfigRef,\* useRef: the config of the running experiment
  isPlaying,      \* useState
  needsReset,     \* useState
  chartData,      \* useState: the rows of the manual run
  heap,           \* the buffers and agent objects the engines and master refer to
  engines,        \* useRef: mode -> engine
  master,         \* the state generateMasterState returned at the last reset
  tickRef,        \* useRef
  raf,            \* an animation-frame callback is requested and not cancelled
  isSweeping,     \* useState
  sweepResults,   \* useState
  sweepProgress,  \* useState: [done, total, label]
  sweepQueueRef,  \* useRef
  sweepIdxRef,    \* useRef
  sweepTickRef,   \* useRef
  accRef,         \* useRef: the accumulator
  timeouts,       \* pending 50 ms timeouts, oldest first: [uc, age]
  lastStats,      \* the stats the update calls of the last host tick returned
  sweepInflowMin, \* useState: the ranges of the sweep, in thousandths
  sweepInflowMax,
  sweepConsMin,
  sweepConsMax

vars == <<userConfig, activeConfigRef, isPlaying, needsReset, chartData, heap,
          engines, master, tickRef, raf, isSweeping, sweepResults, sweepProgress,
          sweepQueueRef, sweepIdxRef, sweepTickRef, accRef, timeouts, lastStats,
          sweepInflowMin, sweepInflowMax, sweepConsMin, sweepConsMax>>

\* The component's state as one record; a handler maps it to the state it leaves.
Cur ==
  [userConfig |-> userConfig, activeConfigRef |-> activeConfigRef,
   isPlaying |-> isPlaying, needsReset |-> needsReset, chartData |-> chartData,
   heap |-> heap, engines |-> engines, master |-> master, tickRef |-> tickRef,
   raf |-> raf, isSweeping |-> isSweeping, sweepResults |-> sweepResults,
   sweepProgress |-> sweepProgress, sweepQueueRef |-> sweepQueueRef,
   sweepIdxRef |-> sweepIdxRef, sweepTickRef |-> sweepTickRef, accRef |-> accRef,
   timeouts |-> timeouts, lastStats |-> lastStats,
   sweepInflowMin |-> sweepInflowMin, sweepInflowMax |-> sweepInflowMax,
   sweepConsMin |-> sweepConsMin, sweepConsMax |-> sweepConsMax]

\* A number kept exact as the quotient num / den, den >= 0.  den = 0 is a
\* non-finite number, as x / 0 is: Infinity (num 1), -Infinity (num -1), NaN
\* (num 0).
Quot(num, den) == [num |-> num, den |-> den]
Number(v) == Quot(v, 1)
NaN == Quot(0, 0)
\* Number.isFinite
IsFinite(a) == a.den # 0
\* a < b: false when either is NaN
QuotLess(a, b) ==
  /\ a # NaN /\ b # NaN
  /\ IF a.den = b.den THEN a.num < b.num ELSE a.num * b.den < b.num * a.den
\* a + v, v finite: a non-finite sum stays what it is
Plus(a, v) == IF IsFinite(a) THEN Quot(a.num + v * a.den, a.den) ELSE a
\* a / n, n a natural number
Over(a, n) ==
  IF a.den * n # 0 THEN Quot(a.num, a.den * n)
  ELSE Quot(IF a.num > 0 THEN 1 ELSE IF a.num < 0 THEN -1 ELSE 0, 0)

PosInf == [inf |-> 1, v |-> 0]
NegInf == [inf |-> -1, v |-> 0]
Fin(v) == [inf |-> 0, v |-> v]

\* resetAcc
EmptyAcc ==
  [n |-> 0, sumOff |-> Number(0), sumLife |-> Number(0),
   sumLifeDiff |-> Number(0), sumLifeAct |-> Number(0),
   sumAgentsLife |-> Number(0), sumAgentsRand |-> Number(0),
   errLifeMin |-> PosInf, errLifeMax |-> NegInf]

\* stopRAF
stopRAF(s) == [s EXCEPT !.raf = FALSE]
\* hardStop
hardStop(s) == [stopRAF(s) EXCEPT !.isPlaying = FALSE]

\* what the engines and the master keep of the heap: the rest is garbage
Reachable(s) ==
  LET bs == {s.engines[k].grid : k \in ModeSet} \cup {s.master.grid}
      os == UNION {{s.engines[k].agents[i] : i \in 1 .. Len(s.engines[k].agents)} :
                     k \in ModeSet}
            \cup {s.master.agents[i] : i \in 1 .. Len(s.master.agents)}
  IN  [s EXCEPT !.heap = [bufs |-> [b \in bs \cap DOMAIN s.heap.bufs |-> s.heap.bufs[b]],
                          objs |-> [o \in os \cap DOMAIN s.heap.objs |-> s.heap.objs[o]]]]

\* importState(master, mode), master the state generateMasterState returned
ImportMaster(s, mode) == importState(s, mode, s.master)

\* handleReset from the new engines on
NewExperiment(s) ==
  Reachable(
    ImportMaster(
      ImportMaster(
        ImportMaster(
          generateMasterState(
            constructor(constructor(constructor(s, "off", s.activeConfigRef),
                                    "random", s.activeConfigRef),
                        "life", s.activeConfigRef),
            "off", s.activeConfigRef),
          "off"),
        "random"),
      "life"))

\* handleReset that drops the override
handleResetWithoutOverride(s, uc, ov) ==
  NewExperiment(
    [stopRAF(s) EXCEPT
       !.isPlaying = FALSE,
       !.activeConfigRef = uc,
       !.tickRef = 0,
       !.chartData = <<>>,
       !.needsReset = FALSE,
       !.heap = EmptyHeap,
       !.engines = <<>>,
       !.master = <<>>,
       !.lastStats = <<>>])

\* handleReset(override), in a render whose userConfig is uc; ov is <<>> or
\* <<[inflowRate, consumptionRate]>>
handleReset(s, uc, ov) ==
  NewExperiment(
    [stopRAF(s) EXCEPT
       !.isPlaying = FALSE,
       !.activeConfigRef = IF ov = <<>> THEN uc
                           ELSE [uc EXCEPT !.inflowRate = ov[1].inflowRate,
                                           !.consumptionRate = ov[1].consumptionRate],
       !.tickRef = 0,
       !.chartData = <<>>,
       !.needsReset = FALSE,
       !.heap = EmptyHeap,
       !.engines = <<>>,
       !.master = <<>>,
       !.lastStats = <<>>])

\* StepEngines with the life engine updated a second time
StepEnginesTwice(s) ==
  Reachable(update(update(update(update(s, "off", s.activeConfigRef),
                                 "random", s.activeConfigRef),
                          "life", s.activeConfigRef),
                   "life", s.activeConfigRef))

\* The three update calls of one host tick, in the order of the code
StepEngines(s) ==
  Reachable(update(update(update(s, "off", s.activeConfigRef),
                          "random", s.activeConfigRef),
                   "life", s.activeConfigRef))

\* prev.slice(-k)
LastRows(rows, k) ==
  IF Len(rows) <= k THEN rows ELSE SubSeq(rows, Len(rows) - k + 1, Len(rows))

CompareRow(tick, st) ==
  [tick |-> tick,
   deltaHeat_off |-> st["off"].deltaHeat, totalHeat_off |-> st["off"].totalHeat,
   agent_off |-> st["off"].agentCount, heatDiff_off |-> st["off"].heatDiff,
   heatAct_off |-> st["off"].heatAct, energyErr_off |-> st["off"].energyError,
   deltaHeat_random |-> st["random"].deltaHeat,
   totalHeat_random |-> st["random"].totalHeat,
   agent_random |-> st["random"].agentCount,
   heatDiff_random |-> st["random"].heatDiff,
   heatAct_random |-> st["random"].heatAct,
   energyErr_random |-> st["random"].energyError,
   deltaHeat_life |-> st["life"].deltaHeat, totalHeat_life |-> st["life"].totalHeat,
   agent_life |-> st["life"].agentCount, heatDiff_life |-> st["life"].heatDiff,
   heatAct_life |-> st["life"].heatAct, energyErr_life |-> st["life"].energyError]

\* ManualStepped counting the tick before it records the row
ManualSteppedCountingFirst(s) ==
  [s EXCEPT !.chartData = Append(LastRows(@, ChartKeep),
                                 CompareRow(s.tickRef + 1, s.lastStats)),
            !.tickRef = @ + 1,
            !.raf = TRUE]

\* simulateManualStep after the three update calls
ManualStepped(s) ==
  [s EXCEPT !.chartData = Append(LastRows(@, ChartKeep),
                                 CompareRow(s.tickRef, s.lastStats)),
            !.tickRef = @ + 1,
            !.raf = TRUE]

\* simulateManualStep
simulateManualStep(s) ==
  IF ~s.isPlaying THEN s ELSE ManualStepped(StepEngines(s))

\* +(v).toFixed(3) of v = q / 4 thousandths.  toFixed rounds the double to the
\* nearest thousandth; a decimal half is no double, so where q / 4 ends in a
\* half the double lies on one side of it or the other: Lo and Hi are the two
\* outcomes, equal everywhere else.
ToFixed3Lo(q) == IF q % 4 = 2 THEN q \div 4 ELSE (q + 2) \div 4
ToFixed3Hi(q) == IF q % 4 = 2 THEN q \div 4 + 1 ELSE (q + 2) \div 4

\* Array.from({ length: 5 }, (_, i) => +(min + step * i).toFixed(3)) with
\* step = (max - min) / 4: the lists it may return
SweepList(min, max) ==
  {[i \in 1 .. SweepListLength |->
      IF up[i] THEN ToFixed3Hi(4 * min + (max - min) * (i - 1))
      ELSE ToFixed3Lo(4 * min + (max - min) * (i - 1))] :
     up \in [1 .. SweepListLength -> BOOLEAN]}
inflowList(s) == SweepList(s.sweepInflowMin, s.sweepInflowMax)
consList(s) == SweepList(s.sweepConsMin, s.sweepConsMax)

\* classify with the population tested first
classifyDeadFirst(avgLife, avgOff, avgAgents) ==
  IF QuotLess(avgAgents, Quot(1, 1)) THEN "dead"
  ELSE IF ~IsFinite(avgLife) \/ ~IsFinite(avgOff) THEN "invalid"
  ELSE IF QuotLess(avgLife, avgOff) THEN "suppressor"
  ELSE "accelerator"

\* classify with every non-finite argument rejected
classifyAllFinite(avgLife, avgOff, avgAgents) ==
  IF ~IsFinite(avgLife) \/ ~IsFinite(avgOff) \/ ~IsFinite(avgAgents) THEN "invalid"
  ELSE IF QuotLess(avgAgents, Quot(1, 1)) THEN "dead"
  ELSE IF QuotLess(avgLife, avgOff) THEN "suppressor"
  ELSE "accelerator"

classify(avgLife, avgOff, avgAgents) ==
  IF ~IsFinite(avgLife) \/ ~IsFinite(avgOff) THEN "invalid"
  ELSE IF QuotLess(avgAgents, Quot(1, 1)) THEN "dead"
  ELSE IF QuotLess(avgLife, avgOff) THEN "suppressor"
  ELSE "accelerator"

\* finalizeOneSweepPoint from the averages on, n the divisor
Finalized(s, pt, n) ==
  [s EXCEPT !.sweepResults =
     Append(@,
       [inflowRate |-> pt.inflowRate,
        consumptionRate |-> pt.consumptionRate,
        avg_delta_off |-> Over(s.accRef.sumOff, n),
        avg_delta_life |-> Over(s.accRef.sumLife, n),
        ratio_life_off |->
          \* avgLife / (avgOff || 1e-9): 0 and NaN, the numbers of num 0, are falsy
          [of |-> Over(s.accRef.sumLife, n),
           by |-> IF s.accRef.sumOff.num # 0 THEN Over(s.accRef.sumOff, n)
                  ELSE Quot(1, 10 ^ 9)],
        avg_heatDiff_life |-> Over(s.accRef.sumLifeDiff, n),
        avg_heatAct_life |-> Over(s.accRef.sumLifeAct, n),
        avg_agents_life |-> Over(s.accRef.sumAgentsLife, n),
        avg_agents_random |-> Over(s.accRef.sumAgentsRand, n),
        energyErr_life_min |-> IF s.accRef.errLifeMin.inf = 0
                               THEN s.accRef.errLifeMin.v ELSE 0,
        energyErr_life_max |-> IF s.accRef.errLifeMax.inf = 0
                               THEN s.accRef.errLifeMax.v ELSE 0,
        status |-> classify(Over(s.accRef.sumLife, n), Over(s.accRef.sumOff, n),
                            Over(s.accRef.sumAgentsLife, n))])]

\* finalizeOneSweepPoint dividing by acc.n itself
finalizeDividingByN(s, pt) == Finalized(s, pt, s.accRef.n)

\* finalizeOneSweepPoint: n = acc.n || 1
finalizeOneSweepPoint(s, pt) ==
  Finalized(s, pt, IF s.accRef.n = 0 THEN 1 ELSE s.accRef.n)

\* v.toFixed(2) of a value in thousandths
ToFixed2(v) == ((v + 5) \div 10) * 10

\* runNextSweepPoint, of a render whose userConfig is uc
runNextSweepPoint(s, uc) ==
  LET q == s.sweepQueueRef
      idx == s.sweepIdxRef
      pt == q[idx + 1]
  IN  IF idx >= Len(q)
      THEN hardStop([s EXCEPT !.isSweeping = FALSE, !.sweepProgress.label = <<"DONE">>])
      ELSE [handleReset([s EXCEPT
                           !.sweepIdxRef = idx + 1,
                           !.sweepTickRef = 0,
                           !.accRef = EmptyAcc,
                           !.sweepProgress =
                              [done |-> idx, total |-> Len(q),
                               label |-> <<"in", ToFixed2(pt.inflowRate),
                                           "met", ToFixed2(pt.consumptionRate)>>]],
                        uc, <<pt>>)
              EXCEPT !.isPlaying = TRUE]

\* the accumulation of simulateSweepStep
Accumulate(a, st) ==
  LET e == st["life"].energyError
  IN  [n |-> a.n + 1,
       sumOff |-> Plus(a.sumOff, st["off"].deltaHeat),
       sumLife |-> Plus(a.sumLife, st["life"].deltaHeat),
       sumLifeDiff |-> Plus(a.sumLifeDiff, st["life"].heatDiff),
       sumLifeAct |-> Plus(a.sumLifeAct, st["life"].heatAct),
       sumAgentsLife |-> Plus(a.sumAgentsLife, st["life"].agentCount),
       sumAgentsRand |-> Plus(a.sumAgentsRand, st["random"].agentCount),
       errLifeMin |-> IF a.errLifeMin.inf = 1 THEN Fin(e)
                      ELSE Fin(Min(a.errLifeMin.v, e)),
       errLifeMax |-> IF a.errLifeMax.inf = -1 THEN Fin(e)
                      ELSE Fin(Max(a.errLifeMax.v, e))]

\* simulateSweepStep from the accumulation to sweepTickRef.current = t + 1
SweepCounted(s) ==
  LET t == s.sweepTickRef
  IN  [s EXCEPT !.accRef = IF t >= SWEEP_BURN_IN THEN Accumulate(@, s.lastStats) ELSE @,
                !.sweepProgress.label =
                   IF t % ProgressEvery = 0 THEN @ \o <<"tick", t>> ELSE @,
                !.sweepTickRef = t + 1]

\* simulateSweepStep from the test of sweepTickRef.current on; uc the userConfig
\* of the render the callback belongs to
SweepContinued(s, uc) ==
  IF s.sweepTickRef >= SWEEP_TOTAL_TICKS
  THEN [finalizeOneSweepPoint([s EXCEPT !.isPlaying = FALSE],
                              s.sweepQueueRef[s.sweepIdxRef])
          EXCEPT !.timeouts = Append(@, [uc |-> uc, age |-> 0])]
  ELSE [s EXCEPT !.raf = TRUE]

\* simulateSweepStep
simulateSweepStep(s) ==
  IF ~s.isPlaying \/ ~s.isSweeping THEN s
  ELSE SweepContinued(SweepCounted(StepEngines(s)), s.userConfig)

\* simulateStep
simulateStep(s) ==
  IF s.isSweeping THEN simulateSweepStep(s) ELSE simulateManualStep(s)

\* SweepPoints with the loops exchanged: for each i of inflowList, for each c
SweepPointsInflowOuter(il, cl) ==
  [k \in 1 .. Len(cl) * Len(il) |->
     [inflowRate |-> il[((k - 1) \div Len(cl)) + 1],
      consumptionRate |-> cl[((k - 1) % Len(cl)) + 1]]]

\* the points of startSweep: for each c of consList, for each i of inflowList
SweepPoints(il, cl) ==
  [k \in 1 .. Len(cl) * Len(il) |->
     [inflowRate |-> il[((k - 1) % Len(il)) + 1],
      consumptionRate |-> cl[((k - 1) \div Len(il)) + 1]]]

\* startSweep in a render whose inflowList is il and whose consList is cl
startSweep(s, il, cl) ==
  runNextSweepPoint(
    [hardStop(s) EXCEPT
       !.sweepQueueRef = SweepPoints(il, cl),
       !.sweepIdxRef = 0,
       !.sweepResults = <<>>,
       !.isSweeping = TRUE,
       !.sweepProgress = [done |-> 0, total |-> Len(SweepPoints(il, cl)),
                          label |-> <<"START">>]],
    s.userConfig)

\* stopSweep
stopSweep(s) ==
  [hardStop([s EXCEPT !.isSweeping = FALSE]) EXCEPT !.sweepProgress.label = <<"STOPPED">>]

\* The state React commits after a handler left s: the effect on [isPlaying]
\* runs only if isPlaying changed; its cleanup is stopRAF, and it requests a
\* frame if isPlaying is now true.
Commit(s) ==
  /\ userConfig' = s.userConfig
  /\ activeConfigRef' = s.activeConfigRef
  /\ isPlaying' = s.isPlaying
  /\ needsReset' = s.needsReset
  /\ chartData' = s.chartData
  /\ heap' = s.heap
  /\ engines' = s.engines
  /\ master' = s.master
  /\ tickRef' = s.tickRef
  /\ raf' = IF s.isPlaying # isPlaying THEN s.isPlaying ELSE s.raf
  /\ isSweeping' = s.isSweeping
  /\ sweepResults' = s.sweepResults
  /\ sweepProgress' = s.sweepProgress
  /\ sweepQueueRef' = s.sweepQueueRef
  /\ sweepIdxRef' = s.sweepIdxRef
  /\ sweepTickRef' = s.sweepTickRef
  /\ accRef' = s.accRef
  /\ timeouts' = s.timeouts
  /\ lastStats' = s.lastStats
  /\ sweepInflowMin' = s.sweepInflowMin
  /\ sweepInflowMax' = s.sweepInflowMax
  /\ sweepConsMin' = s.sweepConsMin
  /\ sweepConsMax' = s.sweepConsMax

\* ------------------------------------------------------------- actions
Is(s) ==
  /\ userConfig = s.userConfig
  /\ activeConfigRef = s.activeConfigRef
  /\ isPlaying = s.isPlaying
  /\ needsReset = s.needsReset
  /\ chartData = s.chartData
  /\ heap = s.heap
  /\ engines = s.engines
  /\ master = s.master
  /\ tickRef = s.tickRef
  /\ raf = s.raf
  /\ isSweeping = s.isSweeping
  /\ sweepResults = s.sweepResults
  /\ sweepProgress = s.sweepProgress
  /\ sweepQueueRef = s.sweepQueueRef
  /\ sweepIdxRef = s.sweepIdxRef
  /\ sweepTickRef = s.sweepTickRef
  /\ accRef = s.accRef
  /\ timeouts = s.timeouts
  /\ lastStats = s.lastStats
  /\ sweepInflowMin = s.sweepInflowMin
  /\ sweepInflowMax = s.sweepInflowMax
  /\ sweepConsMin = s.sweepConsMin
  /\ sweepConsMax = s.sweepConsMax

\* The component after mounting: the initial useState and useRef values, then
\* the effect that calls handleReset().
Mounted(uc) ==
  handleReset(
    [userConfig |-> uc, activeConfigRef |-> uc, isPlaying |-> FALSE,
     needsReset |-> FALSE, chartData |-> <<>>, heap |-> EmptyHeap,
     engines |-> <<>>, master |-> <<>>, tickRef |-> 0, raf |-> FALSE,
     isSweeping |-> FALSE, sweepResults |-> <<>>,
     sweepProgress |-> [done |-> 0, total |-> 0, label |-> <<>>],
     sweepQueueRef |-> <<>>, sweepIdxRef |-> 0, sweepTickRef |-> 0,
     accRef |-> EmptyAcc, timeouts |-> <<>>, lastStats |-> <<>>,
     sweepInflowMin |-> 1000, sweepInflowMax |-> 9000,
     sweepConsMin |-> 500, sweepConsMax |-> 2500],
    uc, <<>>)

\* The configs explored.  The engine takes any config; the controls of the host
\* offer gridSize 20 .. 100 and keep initialAgents 30 and diffusionCap 0.8.  The
\* model runs the same code on small grids and populations, with rates that
\* make diffusion, feeding, death and reproduction all happen within MaxTicks
\* ticks, and on one config whose diffusionSpeed and diffusionCap let a scan
\* overdraw a cell.
BaseConfigs ==
  {[gridSize |-> 3, inflowRate |-> inflow, consumptionRate |-> cons,
    diffusionSpeed |-> 100, diffusionCap |-> cap, initialAgents |-> 2,
    initialSpread |-> 1, seed |-> 12345] :
     inflow \in {0, 5000}, cons \in {40, 1500, 9000}, cap \in {800, 1000}}
  \cup {[gridSize |-> 3, inflowRate |-> 5000, consumptionRate |-> 1500,
         diffusionSpeed |-> 4000, diffusionCap |-> 1500, initialAgents |-> 2,
         initialSpread |-> 1, seed |-> 12345]}
SweepBaseConfig ==
  [gridSize |-> 2, inflowRate |-> 5000, consumptionRate |-> 1500,
   diffusionSpeed |-> 100, diffusionCap |-> 800, initialAgents |-> 1,
   initialSpread |-> 1, seed |-> 12345]
\* the values the controls are set to
ParamChoices == {<<"seed", 12345>>, <<"seed", 7>>}
\* the values typed into the range inputs of the sweep, in thousandths
RangeChoices == {0, 3, 4, 9}

Init == \E uc \in BaseConfigs : Is(Mounted(uc))
InitSweep == Is(Mounted(SweepBaseConfig))

\* when the user touches the controls during a sweep
EarlyInPoint == sweepIdxRef <= MaxClickPoints /\ sweepTickRef <= MaxClickTick
BetweenPoints == sweepIdxRef <= MaxClickPoints /\ timeouts # <<>>

\* the RUN MANUAL / STOP button
TogglePlay ==
  /\ ~needsReset /\ ~isSweeping
  /\ Commit([Cur EXCEPT !.isPlaying = ~isPlaying])

\* the RESET ENGINE button
ResetClick ==
  /\ ~isSweeping
  /\ Commit(handleReset(Cur, userConfig, <<>>))

\* updateParam, and the effect on [handleReset] that follows the render: uc is
\* the userConfig of that render
ParamSet(uc) ==
  Commit(handleReset([Cur EXCEPT !.userConfig = uc, !.needsReset = TRUE], uc, <<>>))
UpdateParam ==
  \E c \in ParamChoices :
    /\ isSweeping => EarlyInPoint
    /\ userConfig[c[1]] # c[2]
    /\ ParamSet([userConfig EXCEPT ![c[1]] = c[2]])

\* the CLEAR CHART button
ClearChart ==
  /\ ~isPlaying /\ ~isSweeping
  /\ Commit([Cur EXCEPT !.chartData = <<>>, !.tickRef = 0])

Aged(ts) == [k \in 1 .. Len(ts) |-> [ts[k] EXCEPT !.age = @ + 1]]
FrameDue == raf /\ \A k \in 1 .. Len(timeouts) : timeouts[k].age < MaxGapFrames

\* an animation frame of a manual run: stepRef.current is simulateStep
ManualFrame ==
  /\ FrameDue /\ ~isSweeping
  /\ engines["off"].ticks < MaxTicks
  /\ Commit(simulateStep([Cur EXCEPT !.raf = FALSE, !.timeouts = Aged(@)]))

\* an animation frame of a sweep
SweepFrame ==
  /\ FrameDue /\ isSweeping
  /\ Commit(simulateStep([Cur EXCEPT !.raf = FALSE, !.timeouts = Aged(@)]))

\* a 50 ms timeout fires: runNextSweepPoint of the render that set it
TimeoutFires ==
  /\ timeouts # <<>>
  /\ Commit(runNextSweepPoint([Cur EXCEPT !.timeouts = Tail(@)], Head(timeouts).uc))

\* the START SWEEP button
StartSweep ==
  /\ ~isSweeping
  /\ timeouts = <<>>
  /\ \E il \in inflowList(Cur), cl \in consList(Cur) : Commit(startSweep(Cur, il, cl))

\* the STOP button of the sweep
StopSweep ==
  /\ isSweeping
  /\ EarlyInPoint \/ BetweenPoints
  /\ Commit(stopSweep(Cur))

\* the range inputs of the sweep, disabled while it runs; in the runs explored
\* the user sets the ranges before the first sweep
RangesOpen == ~isSweeping /\ sweepQueueRef = <<>>
SetSweepInflowMin ==
  \E v \in RangeChoices : RangesOpen /\ Commit([Cur EXCEPT !.sweepInflowMin = v])
SetSweepInflowMax ==
  \E v \in RangeChoices : RangesOpen /\ Commit([Cur EXCEPT !.sweepInflowMax = v])
SetSweepConsMin ==
  \E v \in RangeChoices : RangesOpen /\ Commit([Cur EXCEPT !.sweepConsMin = v])
SetSweepConsMax ==
  \E v \in RangeChoices : RangesOpen /\ Commit([Cur EXCEPT !.sweepConsMax = v])

\* The manual run: the host without its sweep controls.
Next ==
  \/ TogglePlay
  \/ ResetClick
  \/ UpdateParam
  \/ ClearChart
  \/ ManualFrame

Spec == Init /\ [][Next]_vars

\* The whole host.
NextSweep ==
  \/ TogglePlay
  \/ ResetClick
  \/ UpdateParam
  \/ ClearChart
  \/ ManualFrame
  \/ SweepFrame
  \/ TimeoutFires
  \/ StartSweep
  \/ StopSweep

SpecSweep == InitSweep /\ [][NextSweep]_vars

\* the START SWEEP button pressed while a timeout is pending: after STOP, in
\* the 50 ms that follow the end of a point
RestartSweep ==
  /\ ~isSweeping
  /\ timeouts # <<>>
  /\ \E il \in inflowList(Cur), cl \in consList(Cur) : Commit(startSweep(Cur, il, cl))

\* Points explored in the restarted sweeps.
MaxRestartPoints == 2

\* an animation frame of a sweep in its first MaxRestartPoints points
RestartFrame ==
  /\ sweepIdxRef <= MaxRestartPoints
  /\ SweepFrame

\* The sweep and its controls, START SWEEP at any moment the button is
\* enabled.
NextRestart ==
  \/ UpdateParam
  \/ RestartFrame
  \/ TimeoutFires
  \/ StartSweep
  \/ StopSweep
  \/ RestartSweep

SpecRestart == InitSweep /\ [][NextRestart]_vars

\* The accumulators a point is finalized with.  finalizeOneSweepPoint and
\* classify take any numbers: a sum is finite or, once a grid cell has
\* overflowed its 32-bit float, Infinity, -Infinity or NaN.
AccChoices ==
  {[EmptyAcc EXCEPT !.n = n, !.sumOff = off, !.sumLife = life,
                    !.sumLifeDiff = life, !.sumAgentsLife = agents,
                    !.errLifeMin = IF n = 0 THEN PosInf ELSE Fin(0),
                    !.errLifeMax = IF n = 0 THEN NegInf ELSE Fin(1)] :
     n \in 0 .. 3,
     off \in {NaN, Quot(1, 0), Quot(-1, 0), Number(0), Number(2), Number(3)},
     life \in {NaN, Quot(1, 0), Quot(-1, 0), Number(0), Number(2), Number(3)},
     agents \in {NaN, Quot(1, 0), Quot(-1, 0), Number(0), Number(1), Number(2),
                 Number(4)}}

\* simulateSweepStep where it tests sweepTickRef.current at the last tick of
\* the first point, the accumulator being any of AccChoices (the engines are
\* not run: finalizing reads the accumulator only)
InitFinalize ==
  \E a \in AccChoices :
    \E il \in inflowList(Mounted(SweepBaseConfig)),
       cl \in consList(Mounted(SweepBaseConfig)) :
      Is([startSweep(Mounted(SweepBaseConfig), il, cl) EXCEPT
            !.accRef = a, !.sweepTickRef = SWEEP_TOTAL_TICKS])

\* the rest of that simulateSweepStep: the point is finalized and the timeout set
PointEnds ==
  /\ isSweeping /\ isPlaying /\ ~raf
  /\ sweepTickRef >= SWEEP_TOTAL_TICKS
  /\ Commit(SweepContinued(Cur, userConfig))

NextFinalize ==
  \/ PointEnds
  \/ TimeoutFires
  \/ StopSweep

SpecFinalize == InitFinalize /\ [][NextFinalize]_vars

\* The seeds typed into the Seed input.
SeedChoices == (-2 .. 40) \cup {-999, -777, -222, 12345, 2 ^ 30, -1831566812}

\* The manual run of one small experiment for each seed.
InitStreams ==
  \E seed \in SeedChoices : Is(Mounted([SweepBaseConfig EXCEPT !.seed = seed]))

NextStreams ==
  \/ TogglePlay
  \/ ResetClick
  \/ ManualFrame

SpecStreams == InitStreams /\ [][NextStreams]_vars

\* The setting up of a sweep: the ranges are typed, the sweep started and
\* stopped.
NextQueue ==
  \/ SetSweepInflowMin
  \/ SetSweepInflowMax
  \/ SetSweepConsMin
  \/ SetSweepConsMax
  \/ StartSweep
  \/ StopSweep

SpecQueue == InitSweep /\ [][NextQueue]_vars

\* Ticks explored in the long runs.
MaxLongTicks == 6

\* The long runs: a small crowded world without inflow, in which the agents
\* feed little (consumptionRate 0.1, the least the slider offers), cells run
\* empty and agents run short of their costs.  No agent reaches the energy of
\* reproduction in these runs, so no energy is halved.
CrowdedConfigs ==
  {[gridSize |-> 2, inflowRate |-> 0, consumptionRate |-> 100,
    diffusionSpeed |-> speed, diffusionCap |-> 800, initialAgents |-> 4,
    initialSpread |-> 1, seed |-> seed] :
     speed \in {0, 100}, seed \in {1, 3, 7, 12345}}

InitCrowded == \E uc \in CrowdedConfigs : Is(Mounted(uc))

\* an animation frame of a long manual run
LongFrame ==
  /\ FrameDue /\ ~isSweeping
  /\ engines["off"].ticks < MaxLongTicks
  /\ Commit(simulateStep([Cur EXCEPT !.raf = FALSE, !.timeouts = Aged(@)]))

NextCrowded ==
  \/ TogglePlay
  \/ ResetClick
  \/ LongFrame

SpecCrowded == InitCrowded /\ [][NextCrowded]_vars

\* Ticks explored in the recorded runs: more than the chart keeps rows.
MaxRecordTicks == 1003
\* The user clears the chart in the first MaxClearTick ticks of an experiment.
MaxClearTick == 2

\* The recorded runs: one agent on the smallest grid, with and without inflow.
RecordConfigs ==
  {[gridSize |-> 2, inflowRate |-> inflow, consumptionRate |-> 1500,
    diffusionSpeed |-> 100, diffusionCap |-> 800, initialAgents |-> 1,
    initialSpread |-> 1, seed |-> 12345] : inflow \in {0, 1000}}

InitRecord == \E uc \in RecordConfigs : Is(Mounted(uc))

\* an animation frame of a recorded manual run
RecordFrame ==
  /\ FrameDue /\ ~isSweeping
  /\ engines["off"].ticks < MaxRecordTicks
  /\ Commit(simulateStep([Cur EXCEPT !.raf = FALSE, !.timeouts = Aged(@)]))

\* the CLEAR CHART button, early in the experiment
ClearEarly ==
  /\ engines["off"].ticks <= MaxClearTick
  /\ ClearChart

NextRecord ==
  \/ TogglePlay
  \/ ResetClick
  \/ ClearEarly
  \/ RecordFrame

SpecRecord == InitRecord /\ [][NextRecord]_vars

\* The fast runs: a diffusionSpeed at which the gradient asks for more than
\* diffusionCap lets a cell give, with the caps 0, 0.8 and 1.
FastConfigs ==
  {[gridSize |-> 3, inflowRate |-> inflow, consumptionRate |-> 1500,
    diffusionSpeed |-> speed, diffusionCap |-> cap, initialAgents |-> 2,
    initialSpread |-> 1, seed |-> 12345] :
     inflow \in {0, 5000}, speed \in {4000, 40000}, cap \in {0, 800, 1000}}

InitFast == \E uc \in FastConfigs : Is(Mounted(uc))

SpecFast == InitFast /\ [][Next]_vars

\* ------------------------------------------------------------- properties
\* the conservation identity of the engine of a mode
Conserved(m) ==
  getTotalInternalEnergy(Cur, m) + engines[m].cumulativeHeat
    = engines[m].initialStock + engines[m].totalInflow

\* C1: with 0 <= diffusionCap <= 1 (and the rates and the speed >= 0), for the
\* engine of every mode, at every tick boundary after importState,
\* internal energy + cumulativeHeat = initialStock + totalInflow, and the
\* energyError every update returned is zero.
C1_Conservation ==
  activeConfigRef.diffusionCap <= 1000 =>
    \A m \in ModeSet :
      /\ Conserved(m)
      /\ m \in DOMAIN lastStats => lastStats[m].energyError = 0

\* C1: with diffusionCap <= 1, the three engines have run two ticks or more
\* with inflow, heat has been produced in every mode and life agents have
\* reproduced.
C1_Witness ==
  /\ activeConfigRef.diffusionCap <= 1000
  /\ \A m \in ModeSet : engines[m].ticks >= 2 /\ engines[m].cumulativeHeat > 0
                        /\ engines[m].totalInflow > 0
  /\ Len(engines["life"].agents) > activeConfigRef.initialAgents
  /\ engines["random"].agents # <<>>

\* the values behind the references of s: an engine, the master
EngineView(s, m) ==
  [s.engines[m] EXCEPT !.grid = GridOf(s, m),
                       !.agents = AgentsOf(s.heap, s.engines[m].agents)]
MasterView(s) ==
  [grid |-> s.heap.bufs[s.master.grid], agents |-> AgentsOf(s.heap, s.master.agents)]

\* the life engine of s where its next update enters the death/reproduction
\* phase: [grid, agents, heat]
PhaseEntry(s) ==
  LifeMove(GridOf(s, "life"), AgentsOf(s.heap, s.engines["life"].agents),
           SideOf(GridOf(s, "life")), s.activeConfigRef.consumptionRate)
NextPhaseEntry ==
  PhaseEntry(Diffuse(Inflow(Cur, "life", activeConfigRef), "life", activeConfigRef))

\* the energy of the agents of pre that die on cell c
DyingOn(agents, c, N) ==
  LET Dies(a) == /\ a.energy < E(deathBelow)
                 /\ (a.x \div PosScale) + (a.y \div PosScale) * N = c
  IN  SumEnergy(SelectSeq(agents, Dies))

\* post is what the death/reproduction phase makes of pre = [grid, agents, heat]
PureTransfer(pre, post, N) ==
  /\ post.heat = 0
  /\ SumGrid(post.grid)
       + SumEnergy([k \in 1 .. Len(post.alive) |-> post.agents[post.alive[k]]])
       + SumEnergy(post.newborns)
     = SumGrid(pre.grid) + SumEnergy(pre.agents)
  /\ \A c \in DOMAIN pre.grid : post.grid[c] = pre.grid[c] + DyingOn(pre.agents, c, N)
PhaseIsPureTransfer(pre, N) == PureTransfer(pre, LifeCycle(pre.grid, pre.agents, N), N)

\* C2: the death/reproduction phase of a life update adds nothing to
\* stepHeatAct, leaves grid sum + agent energy sum unchanged, and adds to every
\* cell exactly the energy of the agents that die on it.
C2_DeathIsTransfer ==
  engines["life"].ticks < MaxTicks
    => PhaseIsPureTransfer(NextPhaseEntry, activeConfigRef.gridSize)

SomeoneDiesWithEnergy(pre) ==
  \E n \in 1 .. Len(pre.agents) :
    pre.agents[n].energy > 0 /\ pre.agents[n].energy < E(deathBelow)

\* C2: the next life update enters the phase with an agent that dies holding
\* energy.
C2_Witness ==
  engines["life"].ticks < MaxTicks /\ SomeoneDiesWithEnergy(NextPhaseEntry)

\* C3: every cell of every engine's grid is >= 0 at every tick boundary.
C3_GridNonNegative ==
  \A m \in ModeSet : \A i \in DOMAIN GridOf(Cur, m) : GridOf(Cur, m)[i] >= 0

\* C3: a scan has overdrawn a cell of the life engine and the clamp has raised
\* it to 0: the audit finds the energy in excess, and a cell holds 0.
C3_Witness ==
  /\ "life" \in DOMAIN lastStats
  /\ lastStats["life"].energyError > 0
  /\ \E i \in DOMAIN GridOf(Cur, "life") : GridOf(Cur, "life")[i] = 0

\* C4: the off engine has no agents whatever the master holds, and every update
\* of it returns agentCount 0, heatAct 0 and deltaHeat = heatDiff.
C4_OffHasNoAgents ==
  /\ engines["off"].agents = <<>>
  /\ "off" \in DOMAIN lastStats =>
       /\ lastStats["off"].agentCount = 0
       /\ lastStats["off"].heatAct = 0
       /\ lastStats["off"].deltaHeat = lastStats["off"].heatDiff

\* C4: the master holds agents and the off engine has been updated, with heat.
C4_Witness ==
  /\ master.agents # <<>>
  /\ "off" \in DOMAIN lastStats
  /\ lastStats["off"].deltaHeat > 0

\* the agent objects a sequence of references names
Objects(ids) == {ids[i] : i \in 1 .. Len(ids)}

\* t is s after an update of the engine of mode m only
OthersKept(s, t, m) ==
  /\ MasterView(t) = MasterView(s)
  /\ \A m2 \in ModeSet \ {m} : EngineView(t, m2) = EngineView(s, m2)

\* C5: the engines and the master share no buffer and no agent object; right
\* after a reset every engine's grid equals the master's and the random and
\* life populations equal the master's agents; the master stays as generated;
\* an update of one engine changes neither the master nor the other engines.
C5_DeepCopies ==
  /\ Cardinality({engines[m].grid : m \in ModeSet} \cup {master.grid}) = 4
  /\ \A m \in ModeSet : Objects(engines[m].agents) \cap Objects(master.agents) = {}
  /\ \A m1, m2 \in ModeSet :
       m1 # m2 => Objects(engines[m1].agents) \cap Objects(engines[m2].agents) = {}
  /\ (\A m \in ModeSet : engines[m].ticks = 0) =>
       \A m \in ModeSet :
         /\ GridOf(Cur, m) = MasterView(Cur).grid
         /\ m # "off" => EngineView(Cur, m).agents = MasterView(Cur).agents
  /\ MasterView(Cur) =
       [grid |-> MasterGrid(activeConfigRef),
        agents |-> MasterAgents(mulberry32(activeConfigRef.seed),
                                activeConfigRef.initialAgents,
                                activeConfigRef.gridSize)]
  /\ \A m \in ModeSet : OthersKept(Cur, update(Cur, m, activeConfigRef), m)

\* C5: the engines have been updated since the reset, the master holds agents
\* and the life engine has left the master's grid and agents behind.
C5_Witness ==
  /\ \A m \in ModeSet : engines[m].ticks >= 1
  /\ master.agents # <<>>
  /\ GridOf(Cur, "life") # MasterView(Cur).grid
  /\ EngineView(Cur, "life").agents # MasterView(Cur).agents

\* C6: whenever the host can handle an event, the three engines have been
\* updated the same number of times since their reset and have the same
\* totalInflow.
C6_Lockstep ==
  \A m \in ModeSet :
    /\ engines[m].ticks = engines["off"].ticks
    /\ engines[m].totalInflow = engines["off"].totalInflow

\* C6: a sweep has been stopped after its engines were updated.
C6_Witness ==
  /\ ~isSweeping
  /\ sweepProgress.label = <<"STOPPED">>
  /\ engines["life"].ticks >= 1
  /\ engines["life"].totalInflow > 0

\* the energy, the heading and the number of the agents generateMasterState
\* returns
AgentsAsGenerated(agents, config) ==
  /\ Len(agents) = config.initialAgents
  /\ \A k \in 1 .. Len(agents) :
       agents[k].energy = E(INITIAL_ENERGY) /\ agents[k].vx = 0 /\ agents[k].vy = 0

\* r, r2 and r3 are Cur after generateMasterState was called on the engine of
\* a mode: r with the config of the last reset, r2 with another seed, r3 with
\* other rates, speed and cap
SameMaster(r, r2, r3) ==
  /\ MasterView(r) = MasterView(Cur)
  /\ AgentsAsGenerated(MasterView(r).agents, activeConfigRef)
  /\ MasterView(r2).grid = MasterView(Cur).grid
  /\ MasterView(r3) = MasterView(Cur)
  /\ r.engines = engines /\ r2.engines = engines /\ r3.engines = engines
  /\ \A m \in ModeSet : EngineView(r, m) = EngineView(Cur, m)

\* C7: generateMasterState called again, on any engine in any state, with the
\* seed, gridSize, initialSpread and initialAgents of the last reset returns
\* the grid and the agents that call returned (energy 2.0, heading (0,0));
\* with another seed it returns the same grid; and it leaves every engine as
\* it was.
C7_MasterDeterministic ==
  \A m \in ModeSet :
    SameMaster(generateMasterState(Cur, m, activeConfigRef),
               generateMasterState(Cur, m, [activeConfigRef EXCEPT !.seed = @ + 1]),
               generateMasterState(Cur, m,
                 [activeConfigRef EXCEPT !.inflowRate = @ + 1000,
                                         !.consumptionRate = @ + 1000,
                                         !.diffusionSpeed = @ + 100,
                                         !.diffusionCap = 500]))

\* C7: the engines have been updated, the random engine has drawn from its
\* stream, and the master holds two agents at different positions.
C7_Witness ==
  /\ engines["random"].ticks >= 1
  /\ engines["random"].rngRandom # mulberry32(engines["random"].seed + modeSaltOther)
  /\ Len(master.agents) = 2
  /\ MasterView(Cur).agents[1] # MasterView(Cur).agents[2]

\* r is Cur after importState(master, m) on the engine of mode m, f the same
\* on an engine just constructed
ResetsTotally(r, f, m) ==
  /\ r.engines[m].cumulativeHeat = 0
  /\ r.engines[m].totalInflow = 0
  /\ r.engines[m].stepHeatDiff = 0
  /\ r.engines[m].stepHeatAct = 0
  /\ r.engines[m].initialStock =
       SumGrid(MasterView(Cur).grid)
         + (IF m = "off" THEN 0 ELSE SumEnergy(MasterView(Cur).agents))
  /\ EngineView(r, m) = EngineView(f, m)
  /\ update(r, m, activeConfigRef).lastStats[m]
       = update(f, m, activeConfigRef).lastStats[m]

\* C8: importState on an engine in any state zeroes cumulativeHeat,
\* totalInflow, stepHeatDiff and stepHeatAct, sets initialStock to the
\* internal energy of the imported state, and leaves the engine as
\* importState leaves a newly constructed engine, with the same stats from
\* the next update.
C8_ImportIsTotalReset ==
  \A m \in ModeSet :
    ResetsTotally(importState(Cur, m, master),
                  importState(constructor(Cur, m, activeConfigRef), m, master),
                  m)

\* C8: the engines have run two ticks or more, produced heat and received
\* inflow, and the random engine has drawn from its stream.
C8_Witness ==
  /\ \A m \in ModeSet : engines[m].ticks >= 2 /\ engines[m].cumulativeHeat > 0
  /\ engines["life"].totalInflow > 0
  /\ engines["random"].rngRandom # mulberry32(engines["random"].seed + modeSaltOther)

\* C9: when a sweep point is finalized its engines have run 650 ticks, the
\* accumulator count n is 250 and the averages of the result are sums divided
\* by 250.
C9_MeasuresWindow ==
  isSweeping /\ sweepTickRef >= SWEEP_TOTAL_TICKS =>
    /\ \A m \in ModeSet : engines[m].ticks = SWEEP_TOTAL_TICKS
    /\ accRef.n = SWEEP_MEASURE_TICKS
    /\ sweepResults # <<>>
    /\ Last(sweepResults).avg_delta_off.den = SWEEP_MEASURE_TICKS
    /\ Last(sweepResults).avg_delta_life.den = SWEEP_MEASURE_TICKS

\* the results are those of the first points of the queue, in queue order
InQueueOrder(results, queue) ==
  /\ Len(results) <= Len(queue)
  /\ \A k \in 1 .. Len(results) :
       /\ results[k].inflowRate = queue[k].inflowRate
       /\ results[k].consumptionRate = queue[k].consumptionRate

\* C10: a sweep that has not been stopped is on its way to Done: its next
\* frame callback or its next timeout is pending, whether it was started from
\* idle or during a manual run; and at Done there is one result per queue
\* point, 25, in queue order.
C10_SweepCompletes ==
  /\ isSweeping => raf \/ timeouts # <<>>
  /\ isSweeping => InQueueOrder(sweepResults, sweepQueueRef)
  /\ sweepProgress.label = <<"DONE">> =>
       /\ Len(sweepResults) = Len(sweepQueueRef)
       /\ Len(sweepResults) = SweepListLength * SweepListLength
       /\ InQueueOrder(sweepResults, sweepQueueRef)

\* the sweep has been stopped and the user has started nothing since
SweepStopped ==
  sweepProgress.label = <<"STOPPED">> /\ ~isSweeping /\ ~isPlaying

\* a step in which a host callback ran: a frame ages the pending timeouts, a
\* firing timeout leaves the list; no handler of a control touches them
CallbackRan == timeouts' # timeouts

\* C11: once stopSweep has run, no callback of the host resets or updates an
\* engine, appends a SweepResult or sets isPlaying, from whichever sweep state
\* the stop was requested, the 50 ms gap before the next point included.
C11_StopIsFinal ==
  [][SweepStopped /\ CallbackRan =>
       /\ engines' = engines
       /\ master' = master
       /\ sweepResults' = sweepResults
       /\ ~isPlaying']_vars

\* the config of the running sweep point: the base config with the point's rates
PointConfig ==
  [userConfig EXCEPT
     !.inflowRate = sweepQueueRef[sweepIdxRef].inflowRate,
     !.consumptionRate = sweepQueueRef[sweepIdxRef].consumptionRate]

\* the engines and the master are those a reset with the config leaves,
\* whatever ran before
FreshFor(config) ==
  /\ \A m \in ModeSet : EngineView(Cur, m) = EngineView(Mounted(config), m)
  /\ MasterView(Cur) = MasterView(Mounted(config))

IsProduct(q) ==
  /\ Len(q) = SweepListLength * SweepListLength
  /\ \A k \in 1 .. Len(q) :
       /\ q[k].inflowRate = q[((k - 1) % SweepListLength) + 1].inflowRate
       /\ q[k].consumptionRate
            = q[((k - 1) \div SweepListLength) * SweepListLength + 1].consumptionRate
\* the five values of each axis
InflowAxis(q) == [i \in 1 .. SweepListLength |-> q[i].inflowRate]
ConsAxis(q) ==
  [i \in 1 .. SweepListLength |-> q[(i - 1) * SweepListLength + 1].consumptionRate]
EqualSteps(l, min, max) ==
  /\ l[1] = min /\ l[SweepListLength] = max
  /\ \A i \in 1 .. SweepListLength - 1 : 4 * (l[i + 1] - l[i]) = max - min
Distinct(q) == \A j, k \in 1 .. Len(q) : j # k => q[j] # q[k]
\* value i of the list is min + i * (max - min) / 4 to the nearest thousandth
RoundedSteps(l, min, max) ==
  \A i \in 1 .. SweepListLength :
    Abs(4 * l[i] - (4 * min + (max - min) * (i - 1))) <= 2

\* C13 as stated: the queue startSweep builds has 25 points, the product of two
\* lists that run from min to max in 4 equal steps, consumption the outer loop,
\* and min < max on both axes makes every pair occur exactly once.
C13_QueueIsGrid ==
  isSweeping =>
    /\ IsProduct(sweepQueueRef)
    /\ EqualSteps(InflowAxis(sweepQueueRef), sweepInflowMin, sweepInflowMax)
    /\ EqualSteps(ConsAxis(sweepQueueRef), sweepConsMin, sweepConsMax)
    /\ sweepInflowMin < sweepInflowMax /\ sweepConsMin < sweepConsMax
         => Distinct(sweepQueueRef)

\* C13 amended: the queue has 25 points, the product of two lists, consumption
\* the outer loop; value i of a list is min + i * (max - min) / 4 rounded to 3
\* decimals, so the list starts at min and ends at max, its steps are equal
\* when (max - min) / 4 is a multiple of 0.001, and every pair occurs exactly
\* once when max - min >= 0.004 on both axes.
C13_QueueIsRoundedGrid ==
  isSweeping =>
    /\ IsProduct(sweepQueueRef)
    /\ RoundedSteps(InflowAxis(sweepQueueRef), sweepInflowMin, sweepInflowMax)
    /\ RoundedSteps(ConsAxis(sweepQueueRef), sweepConsMin, sweepConsMax)
    /\ InflowAxis(sweepQueueRef)[1] = sweepInflowMin
    /\ InflowAxis(sweepQueueRef)[SweepListLength] = sweepInflowMax
    /\ ConsAxis(sweepQueueRef)[1] = sweepConsMin
    /\ ConsAxis(sweepQueueRef)[SweepListLength] = sweepConsMax
    /\ (sweepInflowMax - sweepInflowMin) % 4 = 0
         => EqualSteps(InflowAxis(sweepQueueRef), sweepInflowMin, sweepInflowMax)
    /\ (sweepConsMax - sweepConsMin) % 4 = 0
         => EqualSteps(ConsAxis(sweepQueueRef), sweepConsMin, sweepConsMax)
    /\ sweepInflowMax - sweepInflowMin >= 4 /\ sweepConsMax - sweepConsMin >= 4
         => Distinct(sweepQueueRef)

\* C13 witness: a queue built for ranges whose steps are rounded on both axes
\* and wide enough to keep the pairs apart, and one whose pairs repeat.
C13_Witness ==
  /\ isSweeping
  /\ sweepInflowMax - sweepInflowMin >= 4 /\ (sweepInflowMax - sweepInflowMin) % 4 # 0
  /\ sweepConsMax - sweepConsMin >= 4 /\ (sweepConsMax - sweepConsMin) % 4 # 0
  /\ ~EqualSteps(InflowAxis(sweepQueueRef), sweepInflowMin, sweepInflowMax)
  /\ Distinct(sweepQueueRef)

\* a point has just been finalized: its result is the last one and the
\* accumulator is still the one it was computed from
JustFinalized == isSweeping /\ timeouts # <<>> /\ sweepResults # <<>>
\* the average the claims prescribe: the sum over n, over 1 when n = 0
AvgOf(sum) == Over(sum, IF accRef.n = 0 THEN 1 ELSE accRef.n)
StatusIs(tag) == Last(sweepResults).status = tag
BothFinite(avgLife, avgOff) == IsFinite(avgLife) /\ IsFinite(avgOff)

Precedence(avgLife, avgOff, avgAgents) ==
  /\ ~BothFinite(avgLife, avgOff) => StatusIs("invalid")
  /\ BothFinite(avgLife, avgOff) /\ QuotLess(avgAgents, Number(1)) => StatusIs("dead")
  /\ BothFinite(avgLife, avgOff) /\ ~QuotLess(avgAgents, Number(1))
       /\ QuotLess(avgLife, avgOff) => StatusIs("suppressor")
  /\ BothFinite(avgLife, avgOff) /\ ~QuotLess(avgAgents, Number(1))
       /\ ~QuotLess(avgLife, avgOff) => StatusIs("accelerator")

\* C14: classify returns one tag by precedence: invalid if avgLife or avgOff
\* is not finite; else dead if avgAgentsLife < 1; else suppressor if
\* avgLife < avgOff; else accelerator, avgLife = avgOff included.
C14_ClassifyPrecedence ==
  JustFinalized =>
    Precedence(AvgOf(accRef.sumLife), AvgOf(accRef.sumOff), AvgOf(accRef.sumAgentsLife))

\* C14 witness: equal finite averages with a population of 1 on average are
\* classified accelerator.
C14_Witness ==
  /\ JustFinalized
  /\ IsFinite(accRef.sumLife) /\ accRef.sumLife = accRef.sumOff
  /\ accRef.sumLife.num > 0
  /\ AvgOf(accRef.sumAgentsLife) = Quot(2, 2)
  /\ StatusIs("accelerator")

DeadWhatever(avgLife, avgOff, avgAgents) ==
  /\ QuotLess(avgAgents, Number(1)) => StatusIs("dead")
  /\ ~IsFinite(avgLife) \/ ~IsFinite(avgOff) \/ ~IsFinite(avgAgents)
       => StatusIs("invalid")

\* C15 as stated: an average population below 1 is classified dead for every
\* avgLife and avgOff, and every non-finite avgLife, avgOff or avgAgentsLife
\* is classified invalid.
C15_DeadRegardless ==
  JustFinalized =>
    DeadWhatever(AvgOf(accRef.sumLife), AvgOf(accRef.sumOff), AvgOf(accRef.sumAgentsLife))

DeadIfMeasured(avgLife, avgOff, avgAgents) ==
  /\ BothFinite(avgLife, avgOff) /\ QuotLess(avgAgents, Number(1)) => StatusIs("dead")
  /\ ~BothFinite(avgLife, avgOff) => StatusIs("invalid")
  /\ BothFinite(avgLife, avgOff) /\ ~IsFinite(avgAgents) =>
       StatusIs(IF avgAgents = Quot(-1, 0) THEN "dead"
                ELSE IF QuotLess(avgLife, avgOff) THEN "suppressor"
                ELSE "accelerator")

\* C15 amended: an average population below 1 is classified dead for every
\* finite avgLife and avgOff; a non-finite avgLife or avgOff is classified
\* invalid whatever the population; a non-finite avgAgentsLife is not tested:
\* with finite averages -Infinity is dead, NaN and Infinity are suppressor or
\* accelerator.
C15_DeadWhenFinite ==
  JustFinalized =>
    DeadIfMeasured(AvgOf(accRef.sumLife), AvgOf(accRef.sumOff),
                   AvgOf(accRef.sumAgentsLife))

\* C15 witness: populations below 1 classified dead with finite averages and
\* invalid without, and a NaN population classified by the averages.
C15_Witness ==
  /\ JustFinalized
  /\ accRef.sumAgentsLife = NaN
  /\ BothFinite(accRef.sumLife, accRef.sumOff)
  /\ QuotLess(accRef.sumLife, accRef.sumOff)
  /\ StatusIs("suppressor")

AveragesOf(res) ==
  /\ res.avg_delta_off = AvgOf(accRef.sumOff)
  /\ res.avg_delta_life = AvgOf(accRef.sumLife)
  /\ res.avg_heatDiff_life = AvgOf(accRef.sumLifeDiff)
  /\ res.avg_heatAct_life = AvgOf(accRef.sumLifeAct)
  /\ res.avg_agents_life = AvgOf(accRef.sumAgentsLife)
  /\ res.avg_agents_random = AvgOf(accRef.sumAgentsRand)
  /\ AvgOf(Number(1)).den # 0
RatioOf(res, avgLife, avgOff) ==
  /\ res.ratio_life_off.of = avgLife
  /\ res.ratio_life_off.by.num # 0
  /\ avgOff # NaN /\ avgOff.num # 0 => res.ratio_life_off.by = avgOff
  /\ avgOff # NaN /\ avgOff.num = 0 => res.ratio_life_off.by = Quot(1, 10 ^ 9)

C17_RandomPopulationConstant ==
  [][/\ Len(engines'["random"].agents) = Len(master'.agents)
     /\ engines'["random"].ticks = engines["random"].ticks + 1
          => engines'["random"].agents = engines["random"].agents]_vars

\* C17 witness: after three updates the random engine still has every agent,
\* one of them with less than half its initial energy.
C17_Witness ==
  /\ engines["random"].ticks >= 3
  /\ Len(engines["random"].agents) = activeConfigRef.initialAgents
  /\ \E k \in 1 .. Len(engines["random"].agents) :
       heap.objs[engines["random"].agents[k]].energy < E(LOW)

\* the state of a stream n calls after state a: a += 0x6d2b79f5, n times
StateAfter(a, n) == Add32(a, Imul(ToU32(n), <<27947, 31221>>))
\* the first n values a stream in state a returns
Stream(a, n) == [k \in 1 .. n |-> Mulberry32Out(StateAfter(a, k)).out]

\* C18: for every seed the stream importState builds in life mode and the one
\* it builds in random mode start from different seeds and their first 100
\* values differ; streams built from the same seed (the off engine gets the
\* salt of random) return the same values, each from its own state: the random
\* engine's stream is that stream after its own two draws per agent and tick.
C18_StreamsIndependent ==
  /\ activeConfigRef.seed + modeSaltLife # activeConfigRef.seed + modeSaltOther
  /\ engines["life"].rngRandom = mulberry32(activeConfigRef.seed + modeSaltLife)
  /\ engines["off"].rngRandom = mulberry32(activeConfigRef.seed + modeSaltOther)
  /\ engines["life"].rngRandom # engines["off"].rngRandom
  /\ engines["random"].ticks = 0
       => /\ Stream(engines["life"].rngRandom, 100)
               # Stream(engines["random"].rngRandom, 100)
          /\ Stream(engines["off"].rngRandom, 100)
               = Stream(engines["random"].rngRandom, 100)
  /\ engines["random"].rngRandom
       = StateAfter(engines["off"].rngRandom,
                    2 * Len(engines["random"].agents) * engines["random"].ticks)

\* C18 witness: after some ticks of a run with a negative seed the random
\* engine has drawn from its stream and the other two streams are untouched.
C18_Witness ==
  /\ activeConfigRef.seed = -777
  /\ engines["random"].ticks >= 3
  /\ engines["random"].rngRandom # engines["off"].rngRandom
  /\ engines["life"].rngRandom = mulberry32(0)

\* a second experiment with the config, in which only the engine of the mode
\* is updated, n times
RECURSIVE RunAlone(_, _, _)
RunAlone(config, mode, n) ==
  IF n = 0 THEN Mounted(config)
  ELSE update(RunAlone(config, mode, n - 1), mode, config)
SameRun(r, m) ==
  /\ EngineView(Cur, m) = EngineView(r, m)
  /\ engines[m].ticks > 0 => lastStats[m] = r.lastStats[m]

\* C19: an engine run is deterministic: whatever the host did before and
\* whatever the other engines do, after every tick the engine of a mode holds
\* the grid, the agents and the counters, and has returned the stats, of a
\* second engine constructed with the same config, imported from a master of
\* that config in the same mode and updated as often with the same config.
C19_RunDeterministic ==
  \A m \in ModeSet : SameRun(RunAlone(activeConfigRef, m, engines[m].ticks), m)

\* C19 witness: the third tick of an experiment that followed another one, the
\* random agents having moved and the life population having changed.
C19_Witness ==
  /\ \A m \in ModeSet : engines[m].ticks >= 3
  /\ userConfig.seed # 12345
  /\ lastStats["random"].heatAct > 0
  /\ engines["random"].rngRandom # mulberry32(activeConfigRef.seed + modeSaltOther)
  /\ Len(engines["life"].agents) # activeConfigRef.initialAgents

\* A fully in-place scan: every value a pair uses, the gradient included, is
\* read from the working buffer.
RECURSIVE ScanInPlace(_, _, _, _, _)
ScanInPlace(st, pairs, k, speed, cap) ==
  IF k > Len(pairs) THEN st
  ELSE ScanInPlace(Exchange(st.next, st, pairs[k][1], pairs[k][2], speed, cap),
                   pairs, k + 1, speed, cap)
GaussSeidel(grid, speed, cap) ==
  Clamped(ScanInPlace([next |-> grid, heat |-> 0], PairsFrom(0, SideOf(grid)), 1,
                      speed, cap))
\* the grid the next update of the mode diffuses
DiffusionInput(m) == GridOf(Inflow(Cur, m, activeConfigRef), m)
IsGaussSeidel(grid, speed, cap) ==
  applyStrictDiffusion(grid, speed, cap).next = GaussSeidel(grid, speed, cap).next

\* C20: the grid a diffusion call produces is that of a fully in-place
\* sequential scan in the same order: the gradient of every pair, like the
\* source's available energy, is taken from the cells as earlier pairs of the
\* scan left them.
C20_DiffusionIsInPlace ==
  \A m \in ModeSet :
    IsGaussSeidel(DiffusionInput(m), activeConfigRef.diffusionSpeed,
                  activeConfigRef.diffusionCap)

\* The pair (i, j) of a scan, the working buffer and the heat being st before
\* it and post after it: when the pair moves energy, the cell that loses it
\* holds strictly more in the working buffer than the cell that gains it, it
\* loses flow, the heat gains the friction's tenth of flow and the receiver the
\* rest.
Downhill(grid, st, post, i, j, speed, cap) ==
  post # st =>
    \E p \in {<<i, j>>, <<j, i>>} :
      /\ st.next[p[1]] > st.next[p[2]]
      /\ st.next[p[1]] - post.next[p[1]]
           = FlowOf(grid[i] - grid[j], st.next[p[1]], speed, cap)
      /\ post.heat - st.heat
           = TruncG((st.next[p[1]] - post.next[p[1]]) \div friction)
      /\ post.next[p[2]] - st.next[p[2]]
           = (st.next[p[1]] - post.next[p[1]]) - (post.heat - st.heat)
RECURSIVE ScanIsDownhill(_, _, _, _, _, _)
ScanIsDownhill(grid, st, pairs, k, speed, cap) ==
  \/ k > Len(pairs)
  \/ /\ Downhill(grid, st, Exchange(grid, st, pairs[k][1], pairs[k][2], speed, cap),
                 pairs[k][1], pairs[k][2], speed, cap)
     /\ ScanIsDownhill(grid, Exchange(grid, st, pairs[k][1], pairs[k][2], speed, cap),
                       pairs, k + 1, speed, cap)
DiffusionIsDownhill(grid, speed, cap) ==
  ScanIsDownhill(grid, [next |-> grid, heat |-> 0], PairsFrom(0, SideOf(grid)), 1,
                 speed, cap)

\* C21: in every exchange of the diffusion scan of the next update, with
\* diffusionCap <= 1, the source holds strictly more than the receiver at the
\* moment of the exchange, it loses min(|delta| * speed * 0.25, available * cap),
\* and of that amount 10% goes to stepHeatDiff and 90% to the receiver.
C21_ExchangeIsDownhill ==
  activeConfigRef.diffusionCap <= 1000 =>
    \A m \in ModeSet :
      DiffusionIsDownhill(DiffusionInput(m), activeConfigRef.diffusionSpeed,
                          activeConfigRef.diffusionCap)

\* the energy sampled in direction i of the direction loop of updateLife
SampledAt(grid, a, N, i) ==
  grid[((((a.x + COS8x2[i + 1]) \div PosScale) + N) % N)
       + ((((a.y + SIN8x2[i + 1]) \div PosScale) + N) % N) * N]

\* the life engine where its next update calls updateLife
BeforeAgents(m) == Diffuse(Inflow(Cur, m, activeConfigRef), m, activeConfigRef)
\* updateLife before its first agent: [grid, agents, heat]
LifeStart == [grid |-> GridOf(BeforeAgents("life"), "life"), agents |-> <<>>, heat |-> 0]
LifeAgentsBefore == AgentsOf(heap, engines["life"].agents)

\* post is the per-agent step of agent a done: the heading a leaves with is the
\* direction whose sample is strictly the greatest of the 8, and the heading a
\* came with (as the unit vector of its angle) when no sample is
StrictlyGreatestOrKept(post, a, N) ==
  LET strict == {i \in 0 .. 7 :
                   \A j \in 0 .. 7 \ {i} :
                     SampledAt(post.grid, a, N, i) > SampledAt(post.grid, a, N, j)}
      v == <<Last(post.agents).vx, Last(post.agents).vy>>
  IN  IF strict = {} THEN v = HeadingOf(a, 0)
      ELSE \E i \in strict : v = <<COS8[i + 1], SIN8[i + 1]>>
RECURSIVE TurnsKeepTies(_, _, _, _, _)
TurnsKeepTies(acc, agents, k, N, consumptionRate) ==
  \/ k > Len(agents)
  \/ /\ StrictlyGreatestOrKept(LifeAgent(acc, agents[k], N, consumptionRate),
                               agents[k], N)
     /\ TurnsKeepTies(LifeAgent(acc, agents[k], N, consumptionRate), agents, k + 1,
                      N, consumptionRate)

\* C22: in the chemotaxis step of every agent of the next life update the new
\* heading is the sampled direction with the strictly greatest energy, and
\* when no direction is strictly the greatest (a tie, as when the 8 cells
\* hold the same energy) the agent keeps the heading it had.
C22_TiesKeepHeading ==
  engines["life"].ticks < MaxTicks =>
    TurnsKeepTies(LifeStart, LifeAgentsBefore, 1, activeConfigRef.gridSize,
                  activeConfigRef.consumptionRate)

\* the state the next update of the life engine leaves
LifeAfter == update(Cur, "life", activeConfigRef)

\* t is the state after a life update whose agents, the objects ids, entered
\* the death/reproduction phase with the values moved: the dead are gone, a
\* reproducing agent is kept with half its energy and has one clone of the
\* same position, heading and energy, any other agent is kept as it was.
CycleApplied(ids, moved, t) ==
  LET pop == t.engines["life"].agents
      Value(o) == t.heap.objs[o]
      Places(o) == {k \in 1 .. Len(pop) : pop[k] = o}
      clones == {k \in 1 .. Len(pop) : pop[k] \notin Objects(ids)}
      parents == {n \in 1 .. Len(ids) : moved[n].energy > E(reproduceAbove)}
  IN  /\ \A n \in 1 .. Len(ids) :
           IF moved[n].energy < E(deathBelow) THEN Places(ids[n]) = {}
           ELSE /\ Cardinality(Places(ids[n])) = 1
                /\ IF n \in parents
                   THEN /\ Value(ids[n]) = [moved[n] EXCEPT !.energy = Value(ids[n]).energy]
                        /\ 2 * Value(ids[n]).energy = moved[n].energy
                        /\ Cardinality({k \in clones : Value(pop[k]) = Value(ids[n])})
                             = Cardinality({j \in parents : moved[j] = moved[n]})
                   ELSE Value(ids[n]) = moved[n]
      /\ Cardinality(clones) = Cardinality(parents)
      /\ \A k \in 1 .. Len(pop) : Value(pop[k]).energy >= E(deathBelow)
      /\ Len(pop) <= 2 * Len(ids)

\* C23: the next life update applies the death/reproduction rules to every
\* agent that went through its movement phase: an agent with energy < 0.2 is
\* gone; an agent with energy > 10 stays with half its energy and has exactly
\* one clone with its position, heading and halved energy; any other agent is
\* unchanged.  Every agent of the population at a tick boundary has energy
\* >= 0.2 and the population at most doubles in a tick.
C23_CycleRules ==
  /\ \A k \in 1 .. Len(engines["life"].agents) :
       heap.objs[engines["life"].agents[k]].energy >= E(deathBelow)
  /\ engines["life"].ticks < MaxTicks =>
       CycleApplied(engines["life"].agents, NextPhaseEntry.agents, LifeAfter)

\* C23 witness: the life engine, updated before, holds a clone, and in its
\* next update an agent reproduces while another neither dies nor reproduces.
C23_Witness ==
  /\ engines["life"].ticks >= 1
  /\ engines["life"].ticks < MaxTicks
  /\ Len(engines["life"].agents) > activeConfigRef.initialAgents
  /\ \E n, k \in 1 .. Len(NextPhaseEntry.agents) :
       /\ NextPhaseEntry.agents[n].energy > E(reproduceAbove)
       /\ NextPhaseEntry.agents[k].energy >= E(deathBelow)
       /\ NextPhaseEntry.agents[k].energy <= E(reproduceAbove)

\* A life update took the population ids (values objs) to ids2 (values objs2),
\* moved being the values the agents entered the death/reproduction phase
\* with and heatAct the activity heat of the tick: ids2 is the agents of ids
\* still alive, in the order of ids, followed by new objects, the clones of the
\* reproducing agents in the order of their parents; every agent of ids still
\* alive has made its move of the tick; a clone holds what its parent holds at
\* the end of the tick (it has not moved, fed, paid, died or split since its
\* creation: no payment beyond those of the agents of ids was made).
SurvivorsThenNewborns(ids, objs, ids2, objs2, moved, heatAct, N) ==
  LET Alive(o) == o \in Objects(ids2)
      kept == SelectSeq(ids, Alive)
      born == SubSeq(ids2, Len(kept) + 1, Len(ids2))
      Splits(n) == moved[n].energy > E(reproduceAbove)
      parents == SelectSeq([n \in 1 .. Len(ids) |-> n], Splits)
  IN  /\ SubSeq(ids2, 1, Len(kept)) = kept
      /\ Objects(born) \cap Objects(ids) = {}
      /\ Len(born) = Len(parents)
      /\ \A k \in 1 .. Len(born) : objs2[born[k]] = objs2[ids[parents[k]]]
      /\ \A k \in 1 .. Len(kept) :
           /\ objs2[kept[k]].x
                = (objs[kept[k]].x + objs2[kept[k]].vx + N * PosScale) % (N * PosScale)
           /\ objs2[kept[k]].y
                = (objs[kept[k]].y + objs2[kept[k]].vy + N * PosScale) % (N * PosScale)
      /\ heatAct <= Len(ids) * E(basal + moveCost)

\* C24: after a life update the population is the surviving agents in their
\* original order followed by the newborns in creation order; a newborn takes
\* no part in the phases of the tick that created it, and every agent of the
\* population, the newborns of the tick before included, goes through the
\* next update.
C24_SurvivorsThenNewborns ==
  [][engines'["life"].ticks = engines["life"].ticks + 1
       => SurvivorsThenNewborns(engines["life"].agents, heap.objs,
                                engines'["life"].agents, heap'.objs,
                                NextPhaseEntry.agents, engines'["life"].stepHeatAct,
                                activeConfigRef.gridSize)]_vars

\* C24 witness: the population holds newborns of an earlier tick, and in the
\* next update two agents that differ reproduce.
C24_Witness ==
  /\ engines["life"].ticks >= 1
  /\ engines["life"].ticks < MaxTicks
  /\ Len(engines["life"].agents) > activeConfigRef.initialAgents
  /\ \E n, k \in 1 .. Len(NextPhaseEntry.agents) :
       /\ NextPhaseEntry.agents[n].energy > E(reproduceAbove)
       /\ NextPhaseEntry.agents[k].energy > E(reproduceAbove)
       /\ NextPhaseEntry.agents[k] # NextPhaseEntry.agents[n]

\* updateRandom before its first agent: [grid, agents, heat, rng]
RandomStart ==
  [grid |-> GridOf(BeforeAgents("random"), "random"), agents |-> <<>>, heat |-> 0,
   rng |-> engines["random"].rngRandom]
RandomAgentsBefore == AgentsOf(heap, engines["random"].agents)

\* the step of agent a in updateRandom took acc to post: a paid min(energy,
\* 0.5), all of it heat, then fed on what the grid lost, and owed nothing at
\* either point
RandomPays(acc, post, a) ==
  /\ post.heat - acc.heat = Min(a.energy, E(cost))
  /\ a.energy - (post.heat - acc.heat) >= 0
  /\ Last(post.agents).energy
       = a.energy - (post.heat - acc.heat) + (SumGrid(acc.grid) - SumGrid(post.grid))
  /\ Last(post.agents).energy >= 0
RECURSIVE RandomNeverOwes(_, _, _, _)
RandomNeverOwes(acc, agents, k, N) ==
  \/ k > Len(agents)
  \/ /\ RandomPays(acc, RandomAgent(acc, agents[k], N), agents[k])
     /\ RandomNeverOwes(RandomAgent(acc, agents[k], N), agents, k + 1, N)

\* the per-agent step of agent a in updateLife took acc to post: a paid
\* min(energy, 0.45), fed on what the grid lost (fed is its energy then), paid
\* min(energy, 0.05), both payments heat, and owed nothing at any point
LifePaysFrom(acc, post, a, fed) ==
  /\ a.energy - Min(a.energy, E(basal)) >= 0
  /\ fed >= 0
  /\ fed - Min(fed, E(moveCost)) >= 0
  /\ post.heat - acc.heat = Min(a.energy, E(basal)) + Min(fed, E(moveCost))
  /\ Last(post.agents).energy = fed - Min(fed, E(moveCost))
LifePays(acc, post, a) ==
  LifePaysFrom(acc, post, a,
               a.energy - Min(a.energy, E(basal))
                 + (SumGrid(acc.grid) - SumGrid(post.grid)))
RECURSIVE LifeNeverOwes(_, _, _, _, _)
LifeNeverOwes(acc, agents, k, N, consumptionRate) ==
  \/ k > Len(agents)
  \/ /\ LifePays(acc, LifeAgent(acc, agents[k], N, consumptionRate), agents[k])
     /\ LifeNeverOwes(LifeAgent(acc, agents[k], N, consumptionRate), agents, k + 1,
                      N, consumptionRate)

\* C25: with consumptionRate >= 0 no agent goes into debt: in the next random
\* and life updates every payment of a cost (0.5 activity, 0.45 basal, 0.05
\* movement) takes min(energy, cost) from the agent and adds that amount to
\* stepHeatAct, and the agent's energy is >= 0 after the payment, after feeding
\* and at the tick boundary.
C25_NoDebt ==
  /\ \A m \in {"random", "life"} :
       \A k \in 1 .. Len(engines[m].agents) : heap.objs[engines[m].agents[k]].energy >= 0
  /\ engines["life"].ticks < MaxLongTicks =>
       /\ RandomNeverOwes(RandomStart, RandomAgentsBefore, 1, activeConfigRef.gridSize)
       /\ LifeNeverOwes(LifeStart, LifeAgentsBefore, 1, activeConfigRef.gridSize,
                        activeConfigRef.consumptionRate)

\* C25 witness: the next update finds a life agent that holds energy, but
\* less than the basal cost.
C25_Witness ==
  /\ engines["life"].ticks < MaxLongTicks
  /\ \E k \in 1 .. Len(engines["life"].agents) :
       /\ heap.objs[engines["life"].agents[k]].energy < E(basal)
       /\ heap.objs[engines["life"].agents[k]].energy > 0

\* the per-agent step of an agent phase: updateLife's or updateRandom's (rate in
\* thousandths)
AgentStep(mode, acc, a, N, rate) ==
  IF mode = "life" THEN LifeAgent(acc, a, N, rate) ELSE RandomAgent(acc, a, N)
\* Math.floor(a.x) + Math.floor(a.y) * N
CellOf(a, N) == (a.x \div PosScale) + (a.y \div PosScale) * N

\* The step of an agent on cell gi took acc to post, start being the grid at
\* the start of the phase and taken what the agents before took from each
\* cell: the agent found the cell as they left it, took min(cell, rate) from
\* it and nothing from any other cell, and the cell has not given more than
\* it held at the start.
FeedBounded(start, taken, acc, post, gi, rate) ==
  /\ acc.grid[gi] = start[gi] - taken[gi]
  /\ acc.grid[gi] - post.grid[gi] = Min(start[gi] - taken[gi], rate)
  /\ taken[gi] + (acc.grid[gi] - post.grid[gi]) <= start[gi]
  /\ \A c \in DOMAIN start \ {gi} : post.grid[c] = acc.grid[c]
RECURSIVE FeedsInTurn(_, _, _, _, _, _, _, _)
FeedsInTurnFrom(mode, start, taken, acc, post, agents, k, N, rate) ==
  /\ FeedBounded(start, taken, acc, post, CellOf(agents[k], N), E(rate))
  /\ FeedsInTurn(mode, start,
                 [taken EXCEPT ![CellOf(agents[k], N)] =
                    @ + (acc.grid[CellOf(agents[k], N)] - post.grid[CellOf(agents[k], N)])],
                 post, agents, k + 1, N, rate)
FeedsInTurn(mode, start, taken, acc, agents, k, N, rate) ==
  \/ k > Len(agents)
  \/ FeedsInTurnFrom(mode, start, taken, acc,
                     AgentStep(mode, acc, agents[k], N, rate),
                     agents, k, N, rate)
FeedsAreSequential(mode, acc, agents, N, rate) ==
  FeedsInTurn(mode, acc.grid, [c \in DOMAIN acc.grid |-> 0], acc, agents, 1, N, rate)

\* C26: in the agent phase of the next random and life updates, with rates
\* >= 0, every agent feeds on its cell as the agents processed before it left
\* it, taking min(cell, rate), so that what the agents of a phase take from a
\* cell never exceeds what the cell held when the phase began.
C26_FeedsAreSequential ==
  engines["life"].ticks < MaxLongTicks =>
    /\ FeedsAreSequential("random", RandomStart, RandomAgentsBefore,
                          activeConfigRef.gridSize, randomTake)
    /\ FeedsAreSequential("life", LifeStart, LifeAgentsBefore,
                          activeConfigRef.gridSize, activeConfigRef.consumptionRate)

\* agents k < j stand on one cell that holds energy, but less than twice the rate
SharedShortCell(grid, agents, N, rate) ==
  \E k, j \in 1 .. Len(agents) :
    /\ k < j
    /\ CellOf(agents[k], N) = CellOf(agents[j], N)
    /\ grid[CellOf(agents[k], N)] > 0
    /\ grid[CellOf(agents[k], N)] < 2 * rate

\* C26 witness: in the next update two life agents, and two random agents,
\* share a cell that cannot feed both in full.
C26_Witness ==
  /\ engines["life"].ticks < MaxLongTicks
  /\ SharedShortCell(LifeStart.grid, LifeAgentsBefore, activeConfigRef.gridSize,
                     E(activeConfigRef.consumptionRate))
  /\ SharedShortCell(RandomStart.grid, RandomAgentsBefore, activeConfigRef.gridSize,
                     E(randomTake))

\* grid with rate added to the cell (floor(N / 2), floor(N / 2)) and to no other
InjectedGrid(grid, N, rate) ==
  [c \in DOMAIN grid |->
     IF c = (N \div 2) * N + (N \div 2) THEN grid[c] + rate ELSE grid[c]]

\* the agent phase of mode m ran on the diffused grid d = [next, heat] and left
\* the grid grid2, and the stats returned are stats2
AgentsAfterDiffusion(m, d, agents, rng, config, grid2, stats2) ==
  /\ stats2.heatDiff = d.heat
  /\ m = "off" => grid2 = d.next /\ stats2.heatAct = 0
  /\ m = "random" =>
       /\ grid2 = updateRandom(d.next, agents, rng, config.gridSize).grid
       /\ stats2.heatAct = updateRandom(d.next, agents, rng, config.gridSize).heat
  /\ m = "life" =>
       /\ grid2 = updateLife(d.next, agents, config.gridSize, config.consumptionRate).grid
       /\ stats2.heatAct
            = updateLife(d.next, agents, config.gridSize, config.consumptionRate).heat

\* the audit came last: the stats count the heat and the agents of the whole
\* tick and the error is taken on the state the tick leaves
AuditedLast(eng2, grid2, agents2, stats2) ==
  /\ stats2.deltaHeat = stats2.heatDiff + stats2.heatAct
  /\ stats2.totalHeat = eng2.cumulativeHeat
  /\ stats2.agentCount = Len(agents2)
  /\ stats2.energyError
       = (SumGrid(grid2) + SumEnergy(agents2) + eng2.cumulativeHeat)
         - (eng2.initialStock + eng2.totalInflow)

\* An update of the engine of mode m, from the grid grid with the agents and
\* the stream rng, left eng2, grid2, agents2 and returned stats2.
TickInOrder(m, grid, agents, rng, config, eng2, grid2, agents2, stats2) ==
  /\ eng2.totalInflow = eng2.ticks * E(config.inflowRate)
  /\ AgentsAfterDiffusion(m,
       applyStrictDiffusion(InjectedGrid(grid, config.gridSize, E(config.inflowRate)),
                            config.diffusionSpeed, config.diffusionCap),
       agents, rng, config, grid2, stats2)
  /\ AuditedLast(eng2, grid2, agents2, stats2)

\* C27: every update runs inflow, diffusion, agent update, audit in this order:
\* inflowRate is added to the center cell only, and to totalInflow, before the
\* diffusion of the tick, which sees it; the agents act on the diffused grid
\* and the audit on what they leave; after k updates with a constant
\* inflowRate totalInflow is k * inflowRate.
C27_PhasesInOrder ==
  [][\A m \in ModeSet :
       engines'[m].ticks = engines[m].ticks + 1
         => TickInOrder(m, GridOf(Cur, m), AgentsOf(heap, engines[m].agents),
                        engines[m].rngRandom, activeConfigRef, engines'[m],
                        heap'.bufs[engines'[m].grid],
                        AgentsOf(heap', engines'[m].agents), lastStats'[m])]_vars

\* C27 witness: three updates or more with an inflow have been made, no cell
\* holds more than the center cell and agents are alive.
C27_Witness ==
  /\ activeConfigRef.inflowRate > 0
  /\ \A m \in ModeSet :
       /\ engines[m].ticks >= 3
       /\ engines[m].totalInflow = engines[m].ticks * E(activeConfigRef.inflowRate)
       /\ \A c \in DOMAIN GridOf(Cur, m) :
            GridOf(Cur, m)[c]
              < InjectedGrid(GridOf(Cur, m), activeConfigRef.gridSize, 1)
                  [(activeConfigRef.gridSize \div 2) * activeConfigRef.gridSize
                   + (activeConfigRef.gridSize \div 2)]
  /\ engines["life"].agents # <<>>
  /\ engines["random"].agents # <<>>

\* stats2 is returned by an update that found the cumulative heat prevTotal
\* and left the population agents2
StatsConsistent(prevTotal, stats2, agents2) ==
  /\ stats2.deltaHeat = stats2.heatDiff + stats2.heatAct
  /\ stats2.heatDiff >= 0
  /\ stats2.heatAct >= 0
  /\ stats2.totalHeat = prevTotal + stats2.deltaHeat
  /\ stats2.totalHeat >= prevTotal
  /\ stats2.agentCount = Len(agents2)

\* C28: the StepStats every update returns are consistent: deltaHeat =
\* heatDiff + heatAct, both >= 0 and both the heat of this tick alone (of its
\* diffusion, of its agent phase); totalHeat is the totalHeat of the tick
\* before (0 at importState) plus deltaHeat and never decreases; agentCount is
\* the size of the population the tick leaves.
C28_StatsConsistent ==
  [][\A m \in ModeSet :
       engines'[m].ticks = engines[m].ticks + 1
         => /\ engines[m].ticks = 0 => engines[m].cumulativeHeat = 0
            /\ engines[m].ticks > 0 => engines[m].cumulativeHeat = lastStats[m].totalHeat
            /\ StatsConsistent(engines[m].cumulativeHeat, lastStats'[m],
                               engines'[m].agents)
            /\ AgentsAfterDiffusion(m,
                 applyStrictDiffusion(
                   InjectedGrid(GridOf(Cur, m), activeConfigRef.gridSize,
                                E(activeConfigRef.inflowRate)),
                   activeConfigRef.diffusionSpeed, activeConfigRef.diffusionCap),
                 AgentsOf(heap, engines[m].agents), engines[m].rngRandom,
                 activeConfigRef, heap'.bufs[engines'[m].grid], lastStats'[m])]_vars

\* C28 witness: after two ticks or more the last life update returned heat of
\* both kinds, less than the total, and a population that births or deaths
\* have changed.
C28_Witness ==
  /\ engines["life"].ticks >= 2
  /\ lastStats["life"].heatDiff > 0
  /\ lastStats["life"].heatAct > 0
  /\ lastStats["life"].totalHeat > lastStats["life"].deltaHeat
  /\ lastStats["life"].agentCount # activeConfigRef.initialAgents
  /\ lastStats["life"].agentCount = Len(engines["life"].agents)

\* Grid sides for which the scan order is examined.
MaxSide == 4

\* cells i and j of an N x N grid are neighbours in a row or in a column, the
\* grid's edge not being crossed
Adjacent(i, j, N) ==
  Abs((i % N) - (j % N)) + Abs((i \div N) - (j \div N)) = 1

\* pairs is every pair of adjacent cells once, each as <<cell, right
\* neighbour>> or <<cell, down neighbour>>, the cells in row-major order and
\* the right neighbour before the down neighbour
EdgesOnceInOrder(pairs, N) ==
  /\ \A k \in 1 .. Len(pairs) :
       /\ pairs[k][1] \in 0 .. N * N - 1 /\ pairs[k][2] \in 0 .. N * N - 1
       /\ Adjacent(pairs[k][1], pairs[k][2], N)
       /\ pairs[k][2] \in {pairs[k][1] + 1, pairs[k][1] + N}
  /\ \A i, j \in 0 .. N * N - 1 :
       Adjacent(i, j, N) =>
         Cardinality({k \in 1 .. Len(pairs) :
                        pairs[k] = <<i, j>> \/ pairs[k] = <<j, i>>}) = 1
  /\ \A k \in 1 .. Len(pairs) - 1 :
       \/ pairs[k][1] < pairs[k + 1][1]
       \/ /\ pairs[k][1] = pairs[k + 1][1]
          /\ pairs[k][2] = pairs[k][1] + 1
          /\ pairs[k + 1][2] = pairs[k][1] + N
  /\ \A k \in 1 .. Len(pairs) :
       /\ pairs[k][1] % N = N - 1 => pairs[k][2] # pairs[k][1] + 1
       /\ pairs[k][1] \div N = N - 1 => pairs[k][2] # pairs[k][1] + N

\* d = [next, heat] is the diffusion of grid: a cell whose neighbours across
\* no edge of the grid all held what it held is left as it was
NoFlowAcrossEdge(grid, d, N) ==
  \A i \in DOMAIN grid :
    (\A j \in DOMAIN grid : Adjacent(i, j, N) => grid[j] = grid[i])
      => d.next[i] = grid[i]

\* C29: a diffusion call considers every pair of horizontally or vertically
\* adjacent cells exactly once, in row-major order with a cell's right
\* neighbour before its down neighbour; the last column has no right neighbour
\* and the last row no down neighbour: diffusion does not wrap around the edge.
C29_EdgesOnceNoWrap ==
  /\ \A N \in 1 .. MaxSide : EdgesOnceInOrder(PairsFrom(0, N), N)
  /\ \A m \in ModeSet :
       NoFlowAcrossEdge(DiffusionInput(m),
                        applyStrictDiffusion(DiffusionInput(m),
                                             activeConfigRef.diffusionSpeed,
                                             activeConfigRef.diffusionCap),
                        activeConfigRef.gridSize)

\* C29 witness: the next diffusion of the off engine finds a cell level with
\* its neighbours inside the grid while the cell across the edge, at the
\* other end of its row or of its column, holds another amount.
C29_Witness ==
  /\ engines["off"].ticks >= 1
  /\ \E i \in DOMAIN DiffusionInput("off") :
       /\ \A j \in DOMAIN DiffusionInput("off") :
            Adjacent(i, j, activeConfigRef.gridSize)
              => DiffusionInput("off")[j] = DiffusionInput("off")[i]
       /\ \/ /\ i % activeConfigRef.gridSize = activeConfigRef.gridSize - 1
             /\ DiffusionInput("off")[i - (activeConfigRef.gridSize - 1)]
                  # DiffusionInput("off")[i]
          \/ /\ i \div activeConfigRef.gridSize = activeConfigRef.gridSize - 1
             /\ DiffusionInput("off")[i % activeConfigRef.gridSize]
                  # DiffusionInput("off")[i]

\* every agent of the list is inside the N x N grid, and so are its cell and
\* the cells it samples, the numbers the code reduces modulo N being >= 0
InGrid(agents, N) ==
  \A k \in 1 .. Len(agents) :
    /\ agents[k].x >= 0 /\ agents[k].x < N * PosScale
    /\ agents[k].y >= 0 /\ agents[k].y < N * PosScale
    /\ CellOf(agents[k], N) \in 0 .. N * N - 1
    /\ \A i \in 1 .. 8 :
         /\ ((agents[k].x + COS8x2[i]) \div PosScale) + N >= 0
         /\ ((agents[k].y + SIN8x2[i]) \div PosScale) + N >= 0

\* The displacement (rng() - 0.5) * 4 of a draw rng() = out / 2^32, floored to
\* the model's precision, is from -2 up to, not including, 2; it is -2 exactly
\* when the draw is 0.  strict: the displacement is to be inside (-2, 2).
StepWithin(out, strict) ==
  /\ ScaleRnd(out, 4 * PosScale) - 2 * PosScale >= 0 - 2 * PosScale
  /\ ScaleRnd(out, 4 * PosScale) - 2 * PosScale < 2 * PosScale
  /\ strict => out # <<0, 0>>

\* agent a of updateRandom moved to a2 with the draws d: each axis is
\* displaced by its draw and wrapped
RandomMoveWithin(a, a2, d, N, strict) ==
  /\ StepWithin(d.o1, strict) /\ StepWithin(d.o2, strict)
  /\ a.x + (ScaleRnd(d.o1, 4 * PosScale) - 2 * PosScale) + N * PosScale >= 0
  /\ a.y + (ScaleRnd(d.o2, 4 * PosScale) - 2 * PosScale) + N * PosScale >= 0
  /\ (a2.x - a.x - (ScaleRnd(d.o1, 4 * PosScale) - 2 * PosScale)) % (N * PosScale) = 0
  /\ (a2.y - a.y - (ScaleRnd(d.o2, 4 * PosScale) - 2 * PosScale)) % (N * PosScale) = 0
  /\ InGrid(<<a2>>, N)
RECURSIVE RandomMovesWithin(_, _, _, _, _)
RandomMovesWithin(acc, agents, k, N, strict) ==
  \/ k > Len(agents)
  \/ /\ RandomMoveWithin(agents[k], Last(RandomAgent(acc, agents[k], N).agents),
                         TwoDraws(acc.rng), N, strict)
     /\ RandomMovesWithin(RandomAgent(acc, agents[k], N), agents, k + 1, N, strict)

\* agent a of updateLife moved to a2: by its new heading, one of the 8 unit
\* vectors or the unit vector it came with, and wrapped
LifeMoveWithin(a, a2, N) ==
  /\ <<a2.vx, a2.vy>> \in {<<COS8[i], SIN8[i]>> : i \in 1 .. 8} \cup {HeadingOf(a, 0)}
  /\ a.x + a2.vx + N * PosScale >= 0
  /\ a.y + a2.vy + N * PosScale >= 0
  /\ (a2.x - a.x - a2.vx) % (N * PosScale) = 0
  /\ (a2.y - a.y - a2.vy) % (N * PosScale) = 0
  /\ InGrid(<<a2>>, N)
RECURSIVE LifeMovesWithin(_, _, _, _, _)
LifeMovesWithin(acc, agents, k, N, consumptionRate) ==
  \/ k > Len(agents)
  \/ /\ LifeMoveWithin(agents[k],
                       Last(LifeAgent(acc, agents[k], N, consumptionRate).agents), N)
     /\ LifeMovesWithin(LifeAgent(acc, agents[k], N, consumptionRate), agents, k + 1,
                        N, consumptionRate)

PositionsInside(strict) ==
  /\ activeConfigRef.gridSize >= 2
  /\ InGrid(RandomAgentsBefore, activeConfigRef.gridSize)
  /\ InGrid(LifeAgentsBefore, activeConfigRef.gridSize)
  /\ InGrid(MasterView(Cur).agents, activeConfigRef.gridSize)
  /\ engines["life"].ticks < MaxTicks =>
       /\ RandomMovesWithin(RandomStart, RandomAgentsBefore, 1,
                            activeConfigRef.gridSize, strict)
       /\ LifeMovesWithin(LifeStart, LifeAgentsBefore, 1, activeConfigRef.gridSize,
                          activeConfigRef.consumptionRate)

\* C30: on a grid with gridSize >= 2 every agent is inside the grid after
\* importState and after every random or life update, so its cell and the
\* cells it samples are cells of the grid; a life move is one unit along the
\* new heading and a random move less than 2 per axis (-2 < displacement < 2),
\* both wrapped.
C30_PositionsInside == PositionsInside(TRUE)

\* C30 amended: as C30, a random move being at most 2 per axis: the
\* displacement is in [-2, 2), -2 when the draw is 0.
C30_PositionsInsideUpToTwo == PositionsInside(FALSE)

\* C30 witness: the first update of the random engine, whose stream began
\* with the draw 0, has moved its agent by -2 along x and wrapped it.
C30_Witness ==
  /\ engines["random"].ticks = 1
  /\ engines["random"].rngRandom = StateAfter(ToU32(0), 1)
  /\ RandomAgentsBefore[1].x
       = (MasterView(Cur).agents[1].x - 2 * PosScale + activeConfigRef.gridSize * PosScale)
           % (activeConfigRef.gridSize * PosScale)
  /\ RandomAgentsBefore[1].x # MasterView(Cur).agents[1].x - 2 * PosScale

\* n rows of consecutive ticks, in order, the last one the tick before tick
RowsInOrder(rows, tick, n) ==
  /\ Len(rows) = n
  /\ \A i \in 1 .. n : rows[i].tick = tick - n + i - 1

\* the stats the three engines return for the tick that starts in this state
StatsOfTick ==
  [m \in ModeSet |-> update(Cur, m, activeConfigRef).lastStats[m]]

\* A step from rows, tick to rows2, tick2 leaves n rows in order; a manual
\* step has added the row of its tick, with the stats of that tick, after the
\* rows it kept as they were recorded.
RecordKept(rows, tick, rows2, tick2, n, stats) ==
  /\ RowsInOrder(rows2, tick2, n)
  /\ tick2 = tick + 1 =>
       /\ Last(rows2) = CompareRow(tick, stats)
       /\ \A i \in 1 .. n - 1 : rows2[i] = rows[Len(rows) - (n - 1) + i]

NonNegative(g) == \A i \in DOMAIN g : g[i] >= 0

\* no cell of the working buffer is negative at any point of the scan, from
\* pair k on
RECURSIVE ScanStaysNonNegative(_, _, _, _, _, _)
ScanStaysNonNegative(grid, st, pairs, k, speed, cap) ==
  /\ NonNegative(st.next)
  /\ \/ k > Len(pairs)
     \/ ScanStaysNonNegative(grid,
                             Exchange(grid, st, pairs[k][1], pairs[k][2], speed, cap),
                             pairs, k + 1, speed, cap)

\* d, what applyStrictDiffusion makes of grid, is what the scan left: the
\* clamp has changed no value, and the grid has lost the heat and nothing else
ClampIdle(grid, scanned, d) ==
  /\ d = scanned
  /\ SumGrid(grid) = SumGrid(d.next) + d.heat

ClampNeverActs(grid, speed, cap) ==
  (cap >= 0 /\ cap <= 1000 /\ speed >= 0 /\ NonNegative(grid)) =>
    /\ ScanStaysNonNegative(grid, [next |-> grid, heat |-> 0],
                            PairsFrom(0, SideOf(grid)), 1, speed, cap)
    /\ ClampIdle(grid,
                 Scan(grid, [next |-> grid, heat |-> 0], PairsFrom(0, SideOf(grid)), 1,
                      speed, cap),
                 applyStrictDiffusion(grid, speed, cap))

\* C32: with 0 <= diffusionCap <= 1, diffusionSpeed >= 0 and a grid that is
\* non-negative on entry, no cell of the working buffer is negative at any
\* point of the scan of a diffusion call, the final clamp changes no value,
\* and grid sum before the call = grid sum after the call + stepHeatDiff.
C32_ClampNeverActs ==
  \A m \in ModeSet :
    engines[m].ticks < MaxTicks =>
      ClampNeverActs(DiffusionInput(m), activeConfigRef.diffusionSpeed,
                     activeConfigRef.diffusionCap)

\* an exchange of the scan, from pair k on, in which available * cap is the
\* lesser bound of the flow and the flow leaves the source empty
CapBinds(delta, available, speed, cap) ==
  /\ delta # 0 /\ available > 0
  /\ TruncG(MulDiv(available, cap, 1000)) < TruncG(MulDiv(Abs(delta), speed, 4000))
  /\ FlowOf(delta, available, speed, cap) = available
RECURSIVE ScanHitsCap(_, _, _, _, _, _)
ScanHitsCap(grid, st, pairs, k, speed, cap) ==
  /\ k <= Len(pairs)
  /\ \/ CapBinds(grid[pairs[k][1]] - grid[pairs[k][2]],
                 st.next[IF grid[pairs[k][1]] > grid[pairs[k][2]]
                         THEN pairs[k][1] ELSE pairs[k][2]], speed, cap)
     \/ ScanHitsCap(grid, Exchange(grid, st, pairs[k][1], pairs[k][2], speed, cap),
                    pairs, k + 1, speed, cap)

\* C32 witness: with diffusionCap 1, the next diffusion call of the life
\* engine, which has run, empties a cell: the gradient asks for more than the
\* cell holds, and the cap lets it give all it has.
C32_Witness ==
  /\ activeConfigRef.diffusionCap = 1000
  /\ engines["life"].ticks >= 1 /\ engines["life"].ticks < MaxTicks
  /\ ScanHitsCap(DiffusionInput("life"), [next |-> DiffusionInput("life"), heat |-> 0],
                 PairsFrom(0, activeConfigRef.gridSize), 1,
                 activeConfigRef.diffusionSpeed, activeConfigRef.diffusionCap)

\* The results are those of the first points of the queue, one each, in queue
\* order: no more than points were started, and none for the point that has
\* not run its SWEEP_TOTAL_TICKS ticks.
ResultsOfCompleted(results, queue, idx, tick) ==
  /\ InQueueOrder(results, queue)
  /\ Len(results) <= idx
  /\ tick < SWEEP_TOTAL_TICKS => Len(results) <= Max(idx - 1, 0)

\* A step that changes the results empties them, as startSweep does, or adds
\* one result: that of the point in progress, in a sweep that has not been
\* stopped, at the step in which the three engines make their last tick.
ResultAdded(results, results2, engines2, tick2) ==
  \/ results2 = results
  \/ results2 = <<>>
  \/ /\ isSweeping /\ isPlaying
     /\ results2 = Append(results, Last(results2))
     /\ Len(results2) = sweepIdxRef
     /\ Last(results2).inflowRate = sweepQueueRef[sweepIdxRef].inflowRate
     /\ Last(results2).consumptionRate = sweepQueueRef[sweepIdxRef].consumptionRate
     /\ tick2 = SWEEP_TOTAL_TICKS
     /\ \A m \in ModeSet :
          engines[m].ticks = SWEEP_TOTAL_TICKS - 1 /\ engines2[m].ticks = SWEEP_TOTAL_TICKS

\* C33: sweepResults holds completed points only: a result is added for the
\* point in progress when its three engines have run all 650 ticks, the
\* results are those of the first queue points in queue order, without gaps
\* or duplicates and never more than the points started, and a point that
\* stopSweep interrupted adds none.
C33_OnlyCompletedPoints ==
  [][/\ ResultsOfCompleted(sweepResults', sweepQueueRef', sweepIdxRef', sweepTickRef')
     /\ ResultAdded(sweepResults, sweepResults', engines', sweepTickRef')]_vars

====
